---- MODULE Spec2Model ----
(***************************************************************************)
(* Model of the audit-proxy data plane (kdhira/audit-proxy).               *)
(*                                                                         *)
(* Strings are sequences of one-character strings, so that case folding,   *)
(* host/port splitting and comparisons are computed and not assumed.       *)
(*                                                                         *)
(* Specifications:                                                         *)
(*   SpecAllowed  handler.allowed as a pure function of (allow-list,target)*)
(*   SpecTee      TeeReadCloser over a LimitedBuffer, chunked reads        *)
(*   SpecLeaf     Manager.LeafForHost with a clock and concurrent callers  *)
(*   Spec         the handlers: handleHTTP, handleConnect, handleMitmTLS   *)
(*   SpecTunnel   tunnelConnections and the record of a raw tunnel         *)
(*   SpecExcerpt  the excerpt buffers of the handlers and their pool       *)
(*   SpecShutdown Server.Shutdown against handlers and a MITM session      *)
(*   SpecHeaderBlock  BlockHeaderFilter.ApplyRequest as a pure function    *)
(*   SpecSanitise SanitiseHeaders on one header, applied twice             *)
(*   SpecRegistry Registry.Match over the configured profiles              *)
(*   SpecBuffer   a LimitedBuffer under any sequence of Write and Reset    *)
(*   SpecStream   the response body streamed to the client, its record     *)
(*   SpecClone    cloneRequest over a heap of URLs and header maps         *)
(*   SpecSession  the decrypted stream of a MITM session, request by       *)
(*                request                                                  *)
(***************************************************************************)
EXTENDS Integers, Sequences, FiniteSets, TLC

VARIABLES
    aList, aTarget, aDone, aResult,
    tSrc, tPos, tOut, tBuf, tEOF,
    clock, cache, certNotAfter, mu, lpc, lloc, lcalls, lhist,
    cfg, requestSeq, idsIssued, pc, obs, logged,
    tnMitm, tnClock, tnStart, tnDir, tnErrCh, tnReceived, tnFirstErr, tnPc,
    tnResult, tnEntries, tnLatency, tnPeer,
    exLimit, exBufs, exPool, exGets, exPuts, exReqs, exPc, exLoc, exStale,
    sdPc, sdListener, sdInflight, sdAccepted, sdIdleUpstream, sdExpired,
    sdSession, sdReads, sdReadsAfter, sdLog,
    hbValues, hbHeader, hbDone, hbResult,
    snName, snValues, snPc, snOut, snAgain,
    rgNames, rgOrdered, rgPc, rgReq, rgResult,
    lbBuf, lbSince, lbRet, lbOps,
    rsPath, rsLimit, rsDeclared, rsBody, rsSent, rsBuf, rsHeld, rsReleased,
    rsPc, rsCopyErr, rsEntries,
    cqUrls, cqHeaders, cqIn, cqOut, cqPc,
    msStream, msPos, msCur, msPc, msParsedAt, msStatuses

avars == <<aList, aTarget, aDone, aResult>>

tvars == <<tSrc, tPos, tOut, tBuf, tEOF>>

lvars == <<clock, cache, certNotAfter, mu, lpc, lloc, lcalls, lhist>>

hvars == <<cfg, requestSeq, idsIssued, pc, obs, logged>>

tnvars ==
    <<tnMitm, tnClock, tnStart, tnDir, tnErrCh, tnReceived, tnFirstErr, tnPc,
      tnResult, tnEntries, tnLatency, tnPeer>>

\* The variables of the parts added to the four above.
exvars == <<exLimit, exBufs, exPool, exGets, exPuts, exReqs, exPc, exLoc, exStale>>

sdvars ==
    <<sdPc, sdListener, sdInflight, sdAccepted, sdIdleUpstream, sdExpired,
      sdSession, sdReads, sdReadsAfter, sdLog>>

hbvars == <<hbValues, hbHeader, hbDone, hbResult>>

snvars == <<snName, snValues, snPc, snOut, snAgain>>

rgvars == <<rgNames, rgOrdered, rgPc, rgReq, rgResult>>

lbvars == <<lbBuf, lbSince, lbRet, lbOps>>

rsvars == <<rsPath, rsLimit, rsDeclared, rsBody, rsSent, rsBuf, rsHeld, rsReleased, rsPc, rsCopyErr, rsEntries>>

cqvars == <<cqUrls, cqHeaders, cqIn, cqOut, cqPc>>

msvars == <<msStream, msPos, msCur, msPc, msParsedAt, msStatuses>>

restvars == <<tnvars, exvars, sdvars, hbvars, snvars, rgvars, lbvars, rsvars, cqvars, msvars>>

vars == <<avars, tvars, lvars, hvars, restvars>>

\* Each specification runs one part of the program and leaves the variables
\* of the other parts alone.
AllowedFrame == UNCHANGED <<tvars, lvars, hvars, restvars>>

TeeFrame == UNCHANGED <<avars, lvars, hvars, restvars>>

LeafFrame == UNCHANGED <<avars, tvars, hvars, restvars>>

HandlerFrame == UNCHANGED <<avars, tvars, lvars, restvars>>

TunnelFrame == UNCHANGED <<avars, tvars, lvars, hvars, exvars, sdvars, hbvars, snvars, rgvars, lbvars, rsvars, cqvars, msvars>>

ExcerptFrame == UNCHANGED <<avars, tvars, lvars, hvars, tnvars, sdvars, hbvars, snvars, rgvars, lbvars, rsvars, cqvars, msvars>>

ShutdownFrame == UNCHANGED <<avars, tvars, lvars, hvars, tnvars, exvars, hbvars, snvars, rgvars, lbvars, rsvars, cqvars, msvars>>

HeaderBlockFrame == UNCHANGED <<avars, tvars, lvars, hvars, tnvars, exvars, sdvars, snvars, rgvars, lbvars, rsvars, cqvars, msvars>>

SanitiseFrame == UNCHANGED <<avars, tvars, lvars, hvars, tnvars, exvars, sdvars, hbvars, rgvars, lbvars, rsvars, cqvars, msvars>>

RegistryFrame == UNCHANGED <<avars, tvars, lvars, hvars, tnvars, exvars, sdvars, hbvars, snvars, lbvars, rsvars, cqvars, msvars>>

BufferFrame == UNCHANGED <<avars, tvars, lvars, hvars, tnvars, exvars, sdvars, hbvars, snvars, rgvars, rsvars, cqvars, msvars>>

StreamFrame == UNCHANGED <<avars, tvars, lvars, hvars, tnvars, exvars, sdvars, hbvars, snvars, rgvars, lbvars, cqvars, msvars>>

CloneFrame == UNCHANGED <<avars, tvars, lvars, hvars, tnvars, exvars, sdvars, hbvars, snvars, rgvars, lbvars, rsvars, msvars>>

SessionFrame == UNCHANGED <<avars, tvars, lvars, hvars, tnvars, exvars, sdvars, hbvars, snvars, rgvars, lbvars, rsvars, cqvars>>

\* The values at which the variables of the parts not running rest.
AllowedIdle == aList = <<>> /\ aTarget = <<>> /\ aDone = FALSE /\ aResult = FALSE

TeeIdle ==
    /\ tSrc = <<>> /\ tPos = 0 /\ tOut = <<>> /\ tEOF = FALSE
    /\ tBuf = [buf |-> <<>>, limit |-> 0]

LeafIdle ==
    /\ clock = 0 /\ cache = <<>> /\ certNotAfter = <<>> /\ mu = 0
    /\ lpc = <<>> /\ lloc = <<>> /\ lcalls = 0 /\ lhist = {}

HandlersIdle ==
    /\ cfg = <<>> /\ requestSeq = 0 /\ idsIssued = <<>> /\ pc = <<>>
    /\ obs = <<>> /\ logged = <<>>

TunnelIdle ==
    /\ tnMitm = FALSE /\ tnClock = 0 /\ tnStart = 0 /\ tnDir = <<>>
    /\ tnErrCh = <<>> /\ tnReceived = <<>> /\ tnFirstErr = "" /\ tnPc = ""
    /\ tnResult = "" /\ tnEntries = {} /\ tnLatency = 0 /\ tnPeer = <<>>

ExcerptIdle ==
    /\ exLimit = 0 /\ exBufs = <<>> /\ exPool = {} /\ exGets = 0 /\ exPuts = 0
    /\ exReqs = 0 /\ exPc = <<>> /\ exLoc = <<>> /\ exStale = {}

ShutdownIdle ==
    /\ sdPc = "" /\ sdListener = FALSE /\ sdInflight = 0 /\ sdAccepted = 0
    /\ sdIdleUpstream = 0 /\ sdExpired = FALSE /\ sdSession = ""
    /\ sdReads = 0 /\ sdReadsAfter = 0 /\ sdLog = <<>>

HeaderBlockIdle ==
    hbValues = <<>> /\ hbHeader = <<>> /\ hbDone = FALSE /\ hbResult = [msg |-> "", arg |-> <<>>]

SanitiseIdle ==
    snName = <<>> /\ snValues = <<>> /\ snPc = "" /\ snOut = <<>> /\ snAgain = <<>>

RegistryIdle ==
    rgNames = <<>> /\ rgOrdered = <<>> /\ rgPc = "" /\ rgReq = <<>> /\ rgResult = 0

BufferIdle ==
    lbBuf = <<>> /\ lbSince = <<>> /\ lbRet = <<>> /\ lbOps = <<>>

StreamIdle ==
    /\ rsPath = "" /\ rsLimit = 0 /\ rsDeclared = 0 /\ rsBody = <<>>
    /\ rsSent = 0 /\ rsBuf = [nil |-> TRUE, buf |-> <<>>, limit |-> 0]
    /\ rsHeld = {} /\ rsReleased = <<>> /\ rsPc = "idle" /\ rsCopyErr = ""
    /\ rsEntries = <<>>

\* An *http.Request reduced to what cloneRequest reads and writes; url and
\* header are addresses (0: nil).
NoRequest == [url |-> 0, header |-> 0, host |-> "", requestURI |-> ""]

CloneIdle ==
    /\ cqUrls = <<>> /\ cqHeaders = <<>> /\ cqIn = NoRequest
    /\ cqOut = [req |-> NoRequest, target |-> "", err |-> ""]
    /\ cqPc = "idle"

\* No request is being processed.
NoHead == [kind |-> "none", n |-> 0, block |-> FALSE]

SessionIdle ==
    /\ msStream = <<>> /\ msPos = 0 /\ msCur = NoHead /\ msPc = "idle"
    /\ msParsedAt = {} /\ msStatuses = <<>>

RestIdle == TunnelIdle /\ ExcerptIdle /\ ShutdownIdle /\ HeaderBlockIdle /\ SanitiseIdle /\ RegistryIdle /\ BufferIdle /\ StreamIdle /\ CloneIdle /\ SessionIdle

(***************************************************************************)
(* Strings                                                                 *)
(***************************************************************************)

\* Longest target string explored by SpecAllowed.
MaxTargetLen == 3

\* Longest allow-list explored by SpecAllowed.
MaxAllowLen == 2

\* Characters of targets: two letters in both cases, the colon and a digit.
Alphabet == {"a", "A", "b", ":", "1"}

\* unicode.SimpleFold restricted to the alphabet: upper case maps to lower.
FoldChar(c) == IF c = "A" THEN "a" ELSE IF c = "B" THEN "b" ELSE c

Fold(s) == [i \in 1..Len(s) |-> FoldChar(s[i])]

EqualFold_cs(s, t) == s = t

\* strings.EqualFold: equality under case folding.
EqualFold(s, t) == Fold(s) = Fold(t)

\* strings.Contains(s, ":")
ContainsColon(s) == \E i \in 1..Len(s) : s[i] = ":"

\* Index of the last colon of s (0 when there is none).
LastColon(s) ==
    IF ContainsColon(s)
    THEN CHOOSE i \in 1..Len(s) : s[i] = ":" /\ \A j \in (i+1)..Len(s) : s[j] # ":"
    ELSE 0

\* net.SplitHostPort on bracket-free input: [host, err].  The host is what
\* precedes the last colon; a missing colon or a second colon is an error,
\* and on error the returned host is the empty string.
SplitHostPort(s) ==
    LET i == LastColon(s)
        h == SubSeq(s, 1, i - 1)
    IN  IF i = 0 THEN [host |-> <<>>, err |-> TRUE]
        ELSE IF ContainsColon(h) THEN [host |-> <<>>, err |-> TRUE]
        ELSE [host |-> h, err |-> FALSE]

(***************************************************************************)
(* handler.allowed                                                         *)
(***************************************************************************)

Star == <<"*">>

\* host := target; if it contains ":", host, _, _ = net.SplitHostPort(target)
\* (the error is dropped, so a failed split leaves host empty).
allowedHost(target) ==
    IF ContainsColon(target) THEN SplitHostPort(target).host ELSE target

\* for _, allowed := range h.allowHosts { "*" or EqualFold => true }
RECURSIVE allowedLoop(_, _, _)
allowedLoop(allowHosts, host, i) ==
    IF i > Len(allowHosts) THEN FALSE
    ELSE IF allowHosts[i] = Star THEN TRUE
    ELSE IF EqualFold(allowHosts[i], host) THEN TRUE
    ELSE allowedLoop(allowHosts, host, i + 1)

allowed(allowHosts, target) ==
    IF target = <<>> THEN FALSE
    ELSE IF Len(allowHosts) = 0 THEN TRUE
    ELSE allowedLoop(allowHosts, allowedHost(target), 1)

(***************************************************************************)
(* SpecAllowed: allowed() applied to every bounded (allow-list, target).   *)
(***************************************************************************)

RECURSIVE SeqsUpTo(_, _)
SeqsUpTo(S, n) ==
    IF n = 0 THEN {<<>>}
    ELSE LET shorter == SeqsUpTo(S, n - 1)
         IN  shorter \cup {Append(s, x) : s \in shorter, x \in S}

\* Names an allow-list may hold (config.normaliseList drops empty items).
AllowNames == {<<"a">>, <<"B">>, <<"a", "b">>, Star}

TargetStrings == SeqsUpTo(Alphabet, MaxTargetLen)

AllowLists == SeqsUpTo(AllowNames, MaxAllowLen)

InitAllowed ==
    /\ aList \in AllowLists
    /\ aTarget \in TargetStrings
    /\ aDone = FALSE
    /\ aResult = FALSE

AllowedCall ==
    /\ ~aDone
    /\ aDone' = TRUE
    /\ aResult' = allowed(aList, aTarget)
    /\ UNCHANGED <<aList, aTarget>>
    /\ AllowedFrame

NextAllowed == AllowedCall

InitSpecAllowed == InitAllowed /\ TeeIdle /\ LeafIdle /\ HandlersIdle /\ RestIdle

SpecAllowed == InitSpecAllowed /\ [][NextAllowed]_vars

HasStar(list) == \E i \in 1..Len(list) : list[i] = Star

Listed(list, target) ==
    \E i \in 1..Len(list) : Fold(list[i]) = Fold(allowedHost(target))

\* C8 (as stated): with `*` in the allow-list every target is admitted,
\* the empty target included.
C8_StarAdmitsEveryTarget ==
    (aDone /\ HasStar(aList)) => aResult = TRUE

\* C8 (amended): the empty target is always rejected; a non-empty target is
\* admitted whenever the allow-list contains `*`; with a non-empty allow-list
\* lacking `*` a non-empty target is admitted exactly when its host part
\* (what precedes the port; empty when the split fails) equals a listed name
\* under case folding.
C8_Allowed ==
    aDone =>
        /\ aTarget = <<>> => aResult = FALSE
        /\ (aTarget # <<>> /\ HasStar(aList)) => aResult = TRUE
        /\ (aTarget # <<>> /\ Len(aList) > 0 /\ ~HasStar(aList)) =>
               (aResult <=> Listed(aList, aTarget))

\* A target in upper case with a port is admitted by a lower-case entry of
\* an allow-list that has no `*`.
C8_Witness ==
    /\ aDone
    /\ aResult = TRUE
    /\ aList = << <<"a">> >>
    /\ aTarget = <<"A", ":", "1">>

(***************************************************************************)
(* LimitedBuffer and TeeReadCloser                                         *)
(***************************************************************************)

\* Longest source stream explored by SpecTee.
MaxStreamLen == 4

\* Largest buffer limit explored by SpecTee.
MaxLimit == 3

\* Byte values of a stream.
Bytes == {0, 1}

Min(a, b) == IF a < b THEN a ELSE b

\* audit.NewLimitedBuffer(limit): an empty buffer with the given limit.
NewLimitedBuffer(limit) == [buf |-> <<>>, limit |-> limit]

LimitedBufferWrite_noTruncate(b, p) ==
    IF b.limit <= 0 THEN [b |-> b, n |-> Len(p), err |-> "nil"]
    ELSE IF b.limit - Len(b.buf) > 0
         THEN [b |-> [b EXCEPT !.buf = b.buf \o p], n |-> Len(p), err |-> "nil"]
         ELSE [b |-> b, n |-> Len(p), err |-> "nil"]

\* LimitedBuffer.Write: [b: the buffer afterwards, n: the count reported,
\* err: the error returned].
\* Up to limit - Len bytes of p are stored; len(p) is reported in any case.
LimitedBufferWrite(b, p) ==
    IF b.limit <= 0 THEN [b |-> b, n |-> Len(p), err |-> "nil"]
    ELSE LET remaining == b.limit - Len(b.buf)
             chunk == IF Len(p) > remaining THEN SubSeq(p, 1, remaining) ELSE p
         IN  IF remaining > 0
             THEN [b |-> [b EXCEPT !.buf = b.buf \o chunk], n |-> Len(p), err |-> "nil"]
             ELSE [b |-> b, n |-> Len(p), err |-> "nil"]

LimitedBufferReset_keepsBytes(b, limit) ==
    [b EXCEPT !.limit = IF limit >= 0 THEN limit ELSE b.limit]

\* LimitedBuffer.Reset(limit): clears; a non-negative limit replaces the old.
LimitedBufferReset(b, limit) ==
    [buf |-> <<>>, limit |-> IF limit >= 0 THEN limit ELSE b.limit]

\* TeeReadCloser.Read given the n bytes the source handed over in p[:n]:
\* the buffer after the read (written only when n > 0 and buf is set).
TeeRead(b, p) ==
    IF Len(p) > 0 THEN LimitedBufferWrite(b, p).b ELSE b

(***************************************************************************)
(* SpecTee: a stream read to its end through a tee, in arbitrary chunks.   *)
(***************************************************************************)

InitTee ==
    /\ tSrc \in SeqsUpTo(Bytes, MaxStreamLen)
    /\ \E limit \in 0..MaxLimit : tBuf = NewLimitedBuffer(limit)
    /\ tPos = 0
    /\ tOut = <<>>
    /\ tEOF = FALSE

\* source.Read returns n >= 1 bytes and a nil error.
TeeReadChunk ==
    /\ ~tEOF
    /\ \E n \in 1..(Len(tSrc) - tPos) :
         LET p == SubSeq(tSrc, tPos + 1, tPos + n)
         IN  /\ tBuf' = TeeRead(tBuf, p)
             /\ tOut' = tOut \o p
             /\ tPos' = tPos + n
    /\ UNCHANGED <<tSrc, tEOF>>
    /\ TeeFrame

\* source.Read returns the last n >= 1 bytes together with io.EOF.
TeeReadLastChunk ==
    /\ ~tEOF
    /\ tPos < Len(tSrc)
    /\ LET p == SubSeq(tSrc, tPos + 1, Len(tSrc))
       IN  /\ tBuf' = TeeRead(tBuf, p)
           /\ tOut' = tOut \o p
           /\ tPos' = Len(tSrc)
    /\ tEOF' = TRUE
    /\ UNCHANGED tSrc
    /\ TeeFrame

\* source.Read returns 0 bytes and io.EOF.
TeeReadEOF ==
    /\ ~tEOF
    /\ tPos = Len(tSrc)
    /\ tBuf' = TeeRead(tBuf, <<>>)
    /\ tEOF' = TRUE
    /\ UNCHANGED <<tSrc, tPos, tOut>>
    /\ TeeFrame

NextTee == TeeReadChunk \/ TeeReadLastChunk \/ TeeReadEOF

InitSpecTee == InitTee /\ AllowedIdle /\ LeafIdle /\ HandlersIdle /\ RestIdle

SpecTee == InitSpecTee /\ [][NextTee]_vars

\* C5: once the stream has been read to its end through the tee, the bytes
\* delivered equal the source and the buffer holds its first min(N, L) bytes,
\* whatever the chunking.
C5_TeeCopies ==
    tEOF =>
        /\ tOut = tSrc
        /\ tBuf.buf = SubSeq(tSrc, 1, Min(Len(tSrc), tBuf.limit))

\* A stream longer than the limit, read to its end in more than one chunk
\* with the limit reached inside a chunk.
C5_Witness ==
    /\ tEOF
    /\ Len(tSrc) = 4
    /\ tBuf.limit = 3
    /\ Len(tBuf.buf) = 3
    /\ tOut = tSrc

(***************************************************************************)
(* mitm.Manager.LeafForHost and mitm.Issuer.IssueCertificate               *)
(*                                                                         *)
(* Time is counted in hours.  A certificate object is identified by the    *)
(* order of its issuance (1, 2, ...): two calls return the same object     *)
(* exactly when they return the same identifier.                           *)
(***************************************************************************)

\* const defaultLeafTTL = 6 * time.Hour
defaultLeafTTL == 6

\* NotAfter: time.Now().Add(24 * time.Hour)
LeafValidity == 24

\* Hours the clock advances in one tick.
TickHours == 3

\* Last hour of the clock.
MaxClock == 8

\* Number of LeafForHost calls explored.
MaxLeafCalls == 3

\* Goroutines calling LeafForHost (one per intercepted CONNECT).
LeafCallers == {1, 2}

\* Hosts passed to LeafForHost: one name in both cases, a second name, and
\* the empty host of a target such as ":443".
LeafHosts == {<<"a">>, <<"A">>, <<"b">>, <<>>}

ToLower_asGiven(s) == s

\* strings.ToLower
ToLower(s) == [i \in 1..Len(s) |-> FoldChar(s[i])]

NoCert == 0

IssuedNotAfter_notBefore(now) == now - 1

\* The NotAfter of a certificate issued at `now`.
IssuedNotAfter(now) == now + LeafValidity

LeafLocIdle ==
    [raw |-> <<>>, host |-> <<>>, now |-> 0, leaf |-> NoCert, ovl |-> FALSE, r |-> 0]

InitLeaf ==
    /\ clock = 0
    /\ cache = <<>>
    /\ certNotAfter = <<>>
    /\ mu = 0
    /\ lpc = [c \in LeafCallers |-> "idle"]
    /\ lloc = [c \in LeafCallers |-> LeafLocIdle]
    /\ lcalls = 0
    /\ lhist = {}

\* time.Now advances.
Tick ==
    /\ clock + TickHours <= MaxClock
    /\ clock' = clock + TickHours
    /\ UNCHANGED <<cache, certNotAfter, mu, lpc, lloc, lcalls, lhist>>
    /\ LeafFrame

\* The call another call for the same (lowercased) host is running beside.
Overlaps(c, cleanHost) ==
    \E d \in LeafCallers : d # c /\ lpc[d] # "idle" /\ lloc[d].host = cleanHost

\* The number of cache writes made so far: every write is the last step of
\* a call that issued.
Writes == Cardinality({x \in lhist : x.issued})

\* A call returns: its result joins the history of completed calls, with
\* the number of cache writes that preceded its map read (r) and, for a call
\* that wrote, the rank of its write (w).
LeafReturn(c, cert, issued) ==
    /\ lhist' = lhist \cup {[raw |-> lloc[c].raw,
                             host |-> lloc[c].host, now |-> lloc[c].now,
                             cert |-> cert, issued |-> issued,
                             ovl |-> lloc[c].ovl,
                             r |-> IF lpc[c] = "read" THEN Writes ELSE lloc[c].r,
                             w |-> IF issued THEN Writes + 1 ELSE 0]}
    /\ lpc' = [lpc EXCEPT ![c] = "idle"]
    /\ lloc' = [lloc EXCEPT ![c] = LeafLocIdle]

\* cleanHost := strings.ToLower(host); now := time.Now().  Callers are
\* interchangeable goroutines: a call is made by the first one that is free.
LeafStart(c) ==
    /\ lpc[c] = "idle"
    /\ \A d \in LeafCallers : d < c => lpc[d] # "idle"
    /\ lcalls < MaxLeafCalls
    /\ \E host \in LeafHosts :
         LET cleanHost == ToLower(host)
             ov == Overlaps(c, cleanHost)
         IN  lloc' = [d \in LeafCallers |->
                        IF d = c
                        THEN [raw |-> host, host |-> cleanHost, now |-> clock,
                              leaf |-> NoCert, ovl |-> ov, r |-> 0]
                        ELSE IF lpc[d] # "idle" /\ lloc[d].host = cleanHost
                             THEN [lloc[d] EXCEPT !.ovl = TRUE]
                             ELSE lloc[d]]
    /\ lpc' = [lpc EXCEPT ![c] = "lock1"]
    /\ lcalls' = lcalls + 1
    /\ UNCHANGED <<clock, cache, certNotAfter, mu, lhist>>
    /\ LeafFrame

\* m.mu.Lock() before the map read.
LeafLock1(c) ==
    /\ lpc[c] = "lock1"
    /\ mu = 0
    /\ mu' = c
    /\ lpc' = [lpc EXCEPT ![c] = "read"]
    /\ UNCHANGED <<clock, cache, certNotAfter, lloc, lcalls, lhist>>
    /\ LeafFrame

CacheHit_noExpiry(c) == lloc[c].host \in DOMAIN cache

Unlock_held(c) == c

\* m.mu.Unlock() by the holder c: the mutex is free.
Unlock(c) == 0

CacheStore_keepFirst(m, k, e) ==
    [h \in (DOMAIN m) \cup {k} |-> IF h \in DOMAIN m THEN m[h] ELSE e]

\* m.cache[cleanHost] = e
CacheStore(m, k, e) ==
    [h \in (DOMAIN m) \cup {k} |-> IF h = k THEN e ELSE m[h]]

\* cached, ok := m.cache[cleanHost]; ok && now.Before(cached.expires)
CacheHit(c) ==
    /\ lloc[c].host \in DOMAIN cache
    /\ lloc[c].now < cache[lloc[c].host].expires

\* if cached, ok := m.cache[cleanHost]; ok && now.Before(cached.expires):
\* unlock and return the cached certificate.
LeafReadHit(c) ==
    /\ lpc[c] = "read"
    /\ mu = c
    /\ CacheHit(c)
    /\ mu' = Unlock(c)
    /\ LeafReturn(c, cache[lloc[c].host].cert, FALSE)
    /\ UNCHANGED <<clock, cache, certNotAfter, lcalls>>
    /\ LeafFrame

\* Otherwise unlock and go on to issue.
LeafReadMiss(c) ==
    /\ lpc[c] = "read"
    /\ mu = c
    /\ ~CacheHit(c)
    /\ mu' = Unlock(c)
    /\ lpc' = [lpc EXCEPT ![c] = "issue"]
    /\ lloc' = [lloc EXCEPT ![c].r = Writes]
    /\ UNCHANGED <<clock, cache, certNotAfter, lcalls, lhist>>
    /\ LeafFrame

\* Issuer.IssueCertificate: an empty host is an error; otherwise a new
\* certificate object with NotAfter = time.Now() + 24h.
LeafIssue(c) ==
    /\ lpc[c] = "issue"
    /\ lloc[c].host # <<>>
    /\ certNotAfter' = Append(certNotAfter, IssuedNotAfter(clock))
    /\ lloc' = [lloc EXCEPT ![c].leaf = Len(certNotAfter) + 1]
    /\ lpc' = [lpc EXCEPT ![c] = "lock2"]
    /\ UNCHANGED <<clock, cache, mu, lcalls, lhist>>
    /\ LeafFrame

\* if err != nil { return nil, err }
LeafIssueFails(c) ==
    /\ lpc[c] = "issue"
    /\ lloc[c].host = <<>>
    /\ LeafReturn(c, NoCert, FALSE)
    /\ UNCHANGED <<clock, cache, certNotAfter, mu, lcalls>>
    /\ LeafFrame

\* m.mu.Lock() before the map write.
LeafLock2(c) ==
    /\ lpc[c] = "lock2"
    /\ mu = 0
    /\ mu' = c
    /\ lpc' = [lpc EXCEPT ![c] = "write"]
    /\ UNCHANGED <<clock, cache, certNotAfter, lloc, lcalls, lhist>>
    /\ LeafFrame

\* m.cache[cleanHost] = cachedCert{cert: leaf, expires: now.Add(m.leafTTL)};
\* unlock and return the new leaf.
LeafWrite(c) ==
    /\ lpc[c] = "write"
    /\ mu = c
    /\ LET k == lloc[c].host
           e == [cert |-> lloc[c].leaf, expires |-> lloc[c].now + defaultLeafTTL]
       IN  cache' = CacheStore(cache, k, e)
    /\ mu' = Unlock(c)
    /\ LeafReturn(c, lloc[c].leaf, TRUE)
    /\ UNCHANGED <<clock, certNotAfter, lcalls>>
    /\ LeafFrame

NextLeaf ==
    \/ Tick
    \/ \E c \in LeafCallers :
         \/ LeafStart(c)
         \/ LeafLock1(c)
         \/ LeafReadHit(c)
         \/ LeafReadMiss(c)
         \/ LeafIssue(c)
         \/ LeafIssueFails(c)
         \/ LeafLock2(c)
         \/ LeafWrite(c)

InitSpecLeaf == InitLeaf /\ AllowedIdle /\ TeeIdle /\ HandlersIdle /\ RestIdle

SpecLeaf == InitSpecLeaf /\ [][NextLeaf]_vars

\* The completed calls for one host, the first of which issued a certificate
\* and the second of which was made within the TTL counted from the first.
WithinTTL(x, y) ==
    /\ x.host = y.host
    /\ x.issued
    /\ x.now <= y.now
    /\ y.now < x.now + defaultLeafTTL

\* The second call was made once the TTL counted from the first had elapsed.
AfterTTL(x, y) ==
    /\ x.host = y.host
    /\ x.issued
    /\ y.cert # NoCert
    /\ y.now >= x.now + defaultLeafTTL

\* C6 (as stated): any two calls for a host made within the TTL return the
\* same certificate object, and a call made after the TTL has elapsed returns
\* a distinct one.
C6_AnyTwoWithinTTLSame ==
    \A x \in lhist : \A y \in lhist :
        /\ WithinTTL(x, y) => y.cert = x.cert
        /\ AfterTTL(x, y) => y.cert # x.cert

\* C6 (amended): two calls for a host made within the TTL return the same
\* certificate object provided neither ran concurrently with another
\* LeafForHost call for that host, and a call made after the TTL has elapsed
\* returns a distinct one.
C6_SameWithinTTL ==
    \A x \in lhist : \A y \in lhist :
        /\ (WithinTTL(x, y) /\ ~x.ovl /\ ~y.ovl) => y.cert = x.cert
        /\ AfterTTL(x, y) => y.cert # x.cert

\* One call issued, a later call inside the TTL got the same object from the
\* cache, and a call after the TTL got another object.
C6_Witness ==
    \E x \in lhist : \E y \in lhist : \E z \in lhist :
        /\ WithinTTL(x, y) /\ ~x.ovl /\ ~y.ovl
        /\ y.now > x.now /\ ~y.issued /\ y.cert = x.cert
        /\ AfterTTL(x, z) /\ z.cert # x.cert

LeafStep(c) ==
    \/ LeafLock1(c)
    \/ LeafReadHit(c)
    \/ LeafReadMiss(c)
    \/ LeafIssue(c)
    \/ LeafIssueFails(c)
    \/ LeafLock2(c)
    \/ LeafWrite(c)

\* While a call is under way some call can take a step.
NoLeafDeadlock ==
    (\E c \in LeafCallers : lpc[c] # "idle") => ENABLED (\E c \in LeafCallers : LeafStep(c))

\* A completed call that ran beside another call for its host and found the
\* cache cold or expired.
Raced(x) == x.ovl /\ (x.issued \/ x.cert = NoCert)

\* The completed calls that wrote the entry of host h, and the last of them.
Writers(h) == {x \in lhist : x.issued /\ x.host = h}

LastOf(S) == CHOOSE x \in S : \A z \in S : z.w <= x.w

\* No call for host h is under way.
Settled(h) == \A c \in LeafCallers : lpc[c] = "idle" \/ lloc[c].host # h

\* A completed call whose map read followed a write for its host and whose
\* `now` precedes the expiry of the entry the last such write stored returned
\* that entry's certificate.
LaterLookupsHit ==
    \A y \in lhist :
        LET prior == {x \in Writers(y.host) : x.w <= y.r}
        IN  prior # {} /\ y.now < LastOf(prior).now + defaultLeafTTL =>
                ~y.issued /\ y.cert = LastOf(prior).cert

C25_MutexOnlyAcrossMap ==
    /\ mu # 0 => lpc[mu] \in {"read", "write"}
    /\ \A c \in LeafCallers :
          /\ lpc[c] \in {"idle", "issue"} => mu # c
          /\ \A d \in LeafCallers :
                lpc[c] = "issue" /\ lpc[d] = "lock1" /\ mu = 0 => ENABLED LeafLock1(d)

\* One call mints a certificate for a host while a lookup for another host
\* holds the mutex for its map read.
C25_Witness ==
    \E c \in LeafCallers : \E d \in LeafCallers :
        /\ lpc[c] = "issue" /\ lloc[c].host # <<>>
        /\ lpc[d] = "read" /\ mu = d
        /\ lloc[d].host # lloc[c].host

\* The lowercased hosts of the completed calls.
HostsRequested == {Fold(x.raw) : x \in lhist}

\* A returning map read that found its host cached and unexpired leaves the
\* number of cache entries as it was.
HitKeepsSize ==
    \A c \in LeafCallers :
        lpc[c] = "read" /\ CacheHit(c) /\ lpc'[c] = "idle" =>
            Cardinality(DOMAIN cache') = Cardinality(DOMAIN cache)

\* Every key of the cache is a lowercased host.
KeysLowercased == \A k \in DOMAIN cache : k = Fold(k)

NoErr == [msg |-> "", arg |-> <<>>]

Err(msg, arg) == [msg |-> msg, arg |-> arg]

NoopFilter == [kind |-> "noop"]

BlockHeaderFilter(values) == [kind |-> "header-block", values |-> values]

PathPrefixBlockFilter(prefixes) == [kind |-> "path-prefix-block", prefixes |-> prefixes]

PathPrefixAllowFilter(prefixes) == [kind |-> "path-prefix-allow", prefixes |-> prefixes]

\* Any other implementation of the Filter interface: it rejects requests,
\* responses, both or neither.
OtherFilter(rejectsRequest, rejectsResponse) ==
    [kind |-> "other", req |-> rejectsRequest, resp |-> rejectsResponse]

\* http.Header.Get: the first value of the header, "" when it is absent.
HeaderGet(values) == IF Len(values) = 0 THEN <<>> ELSE values[1]

\* strings.HasPrefix
HasPrefix(str, prefix) ==
    /\ Len(prefix) <= Len(str)
    /\ SubSeq(str, 1, Len(prefix)) = prefix

\* Filter.ApplyRequest of one filter.
FilterApplyRequest(f, r) ==
    CASE f.kind = "noop" -> NoErr
      [] f.kind = "header-block" ->
            LET value == HeaderGet(r.header)
            IN  IF value = <<>> THEN NoErr
                ELSE IF \E i \in 1..Len(f.values) : EqualFold(value, f.values[i])
                     THEN Err("blocked by header filter", value)
                     ELSE NoErr
      [] f.kind = "path-prefix-block" ->
            IF \E i \in 1..Len(f.prefixes) : HasPrefix(r.path, f.prefixes[i])
            THEN Err("blocked by path filter",
                     f.prefixes[CHOOSE i \in 1..Len(f.prefixes) :
                                   /\ HasPrefix(r.path, f.prefixes[i])
                                   /\ \A j \in 1..(i-1) : ~HasPrefix(r.path, f.prefixes[j])])
            ELSE NoErr
      [] f.kind = "path-prefix-allow" ->
            IF Len(f.prefixes) = 0 THEN NoErr
            ELSE IF \E i \in 1..Len(f.prefixes) : HasPrefix(r.path, f.prefixes[i])
                 THEN NoErr
                 ELSE Err("request path not in allowed prefixes", r.path)
      [] OTHER -> IF f.req THEN Err("rejected by filter", <<>>) ELSE NoErr

\* Filter.ApplyResponse of one filter: the built-in kinds accept everything.
FilterApplyResponse(f) ==
    IF f.kind = "other" /\ f.resp THEN Err("rejected by filter", <<>>) ELSE NoErr

ChainApplyRequest_noReturn(filters, r, i, calls) ==
    [err |-> IF \E k \in 1..Len(filters) : FilterApplyRequest(filters[k], r) # NoErr
             THEN FilterApplyRequest(filters[CHOOSE k \in 1..Len(filters) :
                        FilterApplyRequest(filters[k], r) # NoErr], r)
             ELSE NoErr,
     calls |-> [k \in 1..Len(filters) |-> k]]

\* FilterChain.ApplyRequest from filter i on: [err: the first rejection or
\* NoErr, calls: the indices of the filters invoked, in order].
RECURSIVE ChainApplyRequest(_, _, _, _)
ChainApplyRequest(filters, r, i, calls) ==
    IF i > Len(filters) THEN [err |-> NoErr, calls |-> calls]
    ELSE LET e == FilterApplyRequest(filters[i], r)
         IN  IF e # NoErr THEN [err |-> e, calls |-> Append(calls, i)]
             ELSE ChainApplyRequest(filters, r, i + 1, Append(calls, i))

\* FilterChain.ApplyResponse from filter i on: the first rejection or NoErr.
RECURSIVE ChainApplyResponse(_, _)
ChainApplyResponse(filters, i) ==
    IF i > Len(filters) THEN NoErr
    ELSE LET e == FilterApplyResponse(filters[i])
         IN  IF e # NoErr THEN e ELSE ChainApplyResponse(filters, i + 1)

\* buildFilterChain with no filters configured: header-block on
\* X-Audit-Block; "b" stands for one of its denied values.
DefaultChain == << BlockHeaderFilter(<< <<"b">> >>) >>

\* A configured chain with every kind of filter and, between them, filters
\* of another implementation that reject requests or responses.
MixedChain ==
    << NoopFilter,
       BlockHeaderFilter(<< <<"b">> >>),
       PathPrefixBlockFilter(<< <<"b">> >>),
       OtherFilter(FALSE, TRUE),
       PathPrefixAllowFilter(<< <<"a">> >>) >>

\* Header values and paths of the requests explored.
HeaderValues == {<<>>, << <<"a">> >>, << <<"B">> >>, << <<"a">>, <<"b">> >>}

Paths == {<<"a">>, <<"b", "a">>, <<"1">>}

(***************************************************************************)
(* The handlers (handleHTTP, handleConnect, handleMitmTLS)                 *)
(*                                                                         *)
(* Each handler goroutine steps through its request.  obs[p].req is what   *)
(* an observer sees of the request (plain or CONNECT) goroutine p handles  *)
(* or handled last, obs[p].inner the same for the request last read from   *)
(* the decrypted stream of its MITM session: the identifier drawn, the     *)
(* status lines written to the client, the upstream contacts made, the     *)
(* request filters invoked, the entries handed to the logger and the path  *)
(* the request ended on.  logged counts, per identifier, the entries the   *)
(* logger received.                                                        *)
(***************************************************************************)

\* Identifiers drawn (requests handled) in one run.
MaxRequests == 3

\* Goroutines serving connections.
Handlers == {1, 2}

\* Targets of requests: no host at all, a host in upper case with a port,
\* and a second host with a port.
Targets == {<<>>, <<"A", ":", "1">>, <<"b", ":", "1">>}

\* The configurations explored (config.Config as NewServer reads it).
Configs ==
    [allowHosts : {<<Star>>, << <<"a">> >>},
     enableMITM : BOOLEAN,
     mitmDisabled : {<< <<"B">> >>},
     filters : {DefaultChain, MixedChain}]

\* Plain requests as the server hands them over; urlNil: r.URL == nil.
HttpRequests ==
    [urlNil : {FALSE}, target : Targets, header : HeaderValues, path : Paths]
    \cup {[urlNil |-> TRUE, target |-> <<>>, header |-> <<>>, path |-> <<>>]}

\* Requests parsed from a decrypted stream: http.ReadRequest sets the URL.
MitmRequests == [urlNil : {FALSE}, header : HeaderValues, path : Paths]

ObsNone ==
    [id |-> 0, kind |-> "none", outcome |-> "none", target |-> <<>>,
     status |-> <<>>, contacts |-> {}, calls |-> <<>>, firstReject |-> 0,
     rejectReason |-> NoErr, upstreamBody |-> "none", emitted |-> 0, entries |-> {}]

InitHandlers ==
    /\ cfg \in Configs
    /\ requestSeq = 0
    /\ idsIssued = <<>>
    /\ pc = [p \in Handlers |-> "idle"]
    /\ obs = [p \in Handlers |-> [req |-> ObsNone, inner |-> ObsNone]]
    /\ logged = [i \in 1..MaxRequests |-> 0]

nextIDSeq_lostUpdate(seq) == IF seq >= 1 THEN seq ELSE seq + 1

\* handler.nextID: atomic.AddUint64(&h.requestSeq, 1), the new value.
nextIDSeq(seq) == seq + 1

mitmInterceptsHost_caseSensitive(target) ==
    IF ~cfg.enableMITM THEN FALSE
    ELSE LET split == SplitHostPort(target)
             host == IF ContainsColon(target) /\ ~split.err THEN split.host ELSE target
         IN  ~\E i \in 1..Len(cfg.mitmDisabled) : cfg.mitmDisabled[i] = host

\* handler.mitmInterceptsHost
mitmInterceptsHost(target) ==
    IF ~cfg.enableMITM THEN FALSE
    ELSE LET split == SplitHostPort(target)
             host == IF ContainsColon(target) /\ ~split.err THEN split.host ELSE target
         IN  ~\E i \in 1..Len(cfg.mitmDisabled) : EqualFold(cfg.mitmDisabled[i], host)

\* audit.Entry with its Request section set: status 0 stands for a record
\* without a response section, mitm "" for one without the attribute.
Entry(id, protocol, target, err, status, mitm) ==
    [id |-> id, protocol |-> protocol, target |-> target, error |-> err,
     request |-> TRUE, status |-> status, mitm |-> mitm]

\* The entry of a completed raw tunnel (handleConnect, lines 271-289): no
\* Request and no Response.
tunnelEntry(id, target, transferErr, mitmEnabled) ==
    [Entry(id, "connect", target, transferErr, 0,
           IF mitmEnabled THEN "planned" ELSE "disabled")
        EXCEPT !.request = FALSE]

\* newHTTPRequest(r) calls r.URL.String(), which dereferences r.URL.
newHTTPRequestPanics(r) == r.urlNil

blockedHostErr_noTarget(target) == Err("blocked host", <<>>)

\* fmt.Errorf("blocked host: %s", targetHost)
blockedHostErr(target) == Err("blocked host", target)

logErrorEntry_noError(id, target, protocol, err) == Entry(id, protocol, target, NoErr, 0, "")

\* handler.logError: the entry handed to the logger.
logErrorEntry(id, target, protocol, err) == Entry(id, protocol, target, err, 0, "")

copyStreamEnds_early(ok) == "streaming"

\* The upstream response body once the copy to the client has returned
\* (copyStream in handleHTTP, resp.Write in processMitmRequest): written
\* completely, or aborted by an error.
copyStreamEnds(ok) == IF ok THEN "complete" ELSE "aborted"

\* The response header is out and the upstream body starts to flow to the
\* client.
BodyStarts(o) == [o EXCEPT !.upstreamBody = "streaming"]

\* logger.Record(entry): the logger's count for the entry's identifier.
Record(lg, entries) ==
    [i \in DOMAIN lg |-> lg[i] + Cardinality({e \in entries : e.id = i})]

\* What one step adds to the observation o of a request: the path it ended
\* on, status lines, upstream contacts, entries handed to the logger.
Observe(o, outcome, status, contacts, entries) ==
    [o EXCEPT !.outcome = outcome,
              !.status = @ \o status,
              !.contacts = @ \cup contacts,
              !.emitted = @ + Cardinality(entries),
              !.entries = @ \cup entries]

\* The first filter of the chain that rejects r (0 when none does).
FirstRejecting(filters, r) ==
    IF \E k \in 1..Len(filters) : FilterApplyRequest(filters[k], r) # NoErr
    THEN CHOOSE k \in 1..Len(filters) :
            /\ FilterApplyRequest(filters[k], r) # NoErr
            /\ \A j \in 1..(k-1) : FilterApplyRequest(filters[j], r) = NoErr
    ELSE 0

\* The observation of the request filters run on r with result res, next to
\* the first filter of the chain that rejects r and its reason.
WithCalls(o, res, r) ==
    LET k == FirstRejecting(cfg.filters, r)
    IN  [o EXCEPT !.calls = res.calls,
                  !.firstReject = k,
                  !.rejectReason = IF k = 0 THEN NoErr
                                   ELSE FilterApplyRequest(cfg.filters[k], r)]

Goto(p, where) == pc' = [pc EXCEPT ![p] = where]

\* start := time.Now(); reqID := h.nextID()
DrawID ==
    /\ Len(idsIssued) < MaxRequests
    /\ requestSeq' = nextIDSeq(requestSeq)
    /\ idsIssued' = Append(idsIssued, requestSeq')

Started(kind, id) == [ObsNone EXCEPT !.id = id, !.kind = kind, !.outcome = "running"]

\* handleHTTP, lines 114-115.
HttpStart(p) ==
    /\ pc[p] = "idle"
    /\ DrawID
    /\ obs' = [obs EXCEPT ![p] = [req |-> Started("http", requestSeq'),
                                  inner |-> ObsNone]]
    /\ Goto(p, "http_clone")
    /\ UNCHANGED <<cfg, logged>>
    /\ HandlerFrame

\* The handler of p's request ends with the observation o and these entries
\* handed to the logger.
EndRequest(p, o, entries, where) ==
    /\ obs' = [obs EXCEPT ![p].req = o]
    /\ logged' = Record(logged, entries)
    /\ Goto(p, where)

\* handleHTTP, lines 126-148: cloneRequest, the allow-list, the request
\* filters.
HttpClone(p) ==
    /\ pc[p] = "http_clone"
    /\ \E r \in HttpRequests :
         LET o == [obs[p].req EXCEPT !.target = r.target]
             id == o.id
             target == r.target
             res == ChainApplyRequest(cfg.filters, r, 1, <<>>)
             cloneFailed ==
                 \* http.Error 400, then logError, which builds the entry
                 \* with newHTTPRequest(r) before it reaches the logger
                 IF newHTTPRequestPanics(r) THEN {}
                 ELSE {logErrorEntry(id, target, "http", Err("missing url", <<>>))}
             blocked == {logErrorEntry(id, target, "http", blockedHostErr(target))}
             rejected == {logErrorEntry(id, target, "http",
                                        Err("request filter rejected", res.err))}
         IN  IF r.urlNil
             THEN EndRequest(p, Observe(o, "clone_failed", <<400>>, {}, cloneFailed),
                             cloneFailed, "idle")
             ELSE IF ~allowed(cfg.allowHosts, target)
             THEN EndRequest(p, Observe(o, "blocked", <<403>>, {}, blocked),
                             blocked, "idle")
             ELSE IF res.err # NoErr
             THEN EndRequest(p, Observe(WithCalls(o, res, r), "req_rejected",
                                        <<403>>, {}, rejected),
                             rejected, "idle")
             ELSE EndRequest(p, WithCalls(o, res, r), {}, "http_roundtrip")
    /\ UNCHANGED <<cfg, requestSeq, idsIssued>>
    /\ HandlerFrame

\* handleHTTP, lines 150-169: the round trip, the response filters, the
\* response header.
HttpRoundTrip(p) ==
    /\ pc[p] = "http_roundtrip"
    /\ LET o == obs[p].req
           e == ChainApplyResponse(cfg.filters, 1)
           failed == {logErrorEntry(o.id, o.target, "http", Err("upstream error", <<>>))}
           rejected == {logErrorEntry(o.id, o.target, "http",
                                      Err("response filter rejected", e))}
       IN  \E ok \in BOOLEAN :
             IF ~ok
             THEN EndRequest(p, Observe(o, "upstream_error", <<502>>,
                                        {"roundtrip"}, failed),
                             failed, "idle")
             ELSE IF e # NoErr
             THEN EndRequest(p, Observe(o, "resp_rejected", <<502>>,
                                        {"roundtrip"}, rejected),
                             rejected, "idle")
             ELSE EndRequest(p, BodyStarts(Observe(o, "running", <<200>>,
                                                   {"roundtrip"}, {})),
                             {}, "http_stream")
    /\ UNCHANGED <<cfg, requestSeq, idsIssued>>
    /\ HandlerFrame

\* handleHTTP, lines 171-177: copyStream ends (completely or with an error,
\* which is only logged) and the writer is flushed.
HttpStream(p) ==
    /\ pc[p] = "http_stream"
    /\ \E ok \in BOOLEAN :
         obs' = [obs EXCEPT ![p].req.upstreamBody = copyStreamEnds(ok)]
    /\ Goto(p, "http_record")
    /\ UNCHANGED <<cfg, requestSeq, idsIssued, logged>>
    /\ HandlerFrame

httpMitmAttr_planned(target) ==
    IF mitmInterceptsHost(target) THEN "enabled"
    ELSE IF cfg.enableMITM THEN "planned" ELSE "disabled"

\* The mitm attribute of a handleHTTP record (h.mitm is never nil).
httpMitmAttr(target) ==
    IF mitmInterceptsHost(target) THEN "enabled"
    ELSE IF cfg.enableMITM THEN "skipped" ELSE "disabled"

\* handleHTTP, lines 179-217: the record of a streamed response.
HttpRecord(p) ==
    /\ pc[p] = "http_record"
    /\ LET o == obs[p].req
           entry == {Entry(o.id, "http", o.target, NoErr, 200, httpMitmAttr(o.target))}
       IN  EndRequest(p, Observe(o, "streamed", <<>>, {}, entry), entry, "idle")
    /\ UNCHANGED <<cfg, requestSeq, idsIssued>>
    /\ HandlerFrame

\* handleConnect, lines 221-222.
ConnectStart(p) ==
    /\ pc[p] = "idle"
    /\ DrawID
    /\ obs' = [obs EXCEPT ![p] = [req |-> Started("connect", requestSeq'),
                                  inner |-> ObsNone]]
    /\ Goto(p, "conn_check")
    /\ UNCHANGED <<cfg, logged>>
    /\ HandlerFrame

\* handleConnect, lines 223-257: the allow-list, the hijack, the 200 reply
\* and its flush, the choice between interception and a raw tunnel.
ConnectCheck(p) ==
    /\ pc[p] = "conn_check"
    /\ \E target \in Targets, hijack \in {"ok", "unsupported", "failed"},
          flushed \in BOOLEAN :
         LET o == [obs[p].req EXCEPT !.target = target]
             fail(outcome, status, contacts, err) ==
                 LET entry == {logErrorEntry(o.id, target, "connect", err)}
                 IN  EndRequest(p, Observe(o, outcome, status, contacts, entry),
                                entry, "idle")
         IN  IF ~allowed(cfg.allowHosts, target)
             THEN fail("blocked", <<403>>, {}, blockedHostErr(target))
             ELSE IF hijack = "unsupported"
             THEN fail("no_hijacker", <<500>>, {},
                       Err("response writer does not implement hijacker", <<>>))
             ELSE IF hijack = "failed"
             THEN fail("hijack_failed", <<>>, {"hijack"}, Err("hijack failed", <<>>))
             ELSE IF ~flushed
             THEN fail("flush_failed", <<>>, {"hijack"}, Err("flush failed", <<>>))
             ELSE IF mitmInterceptsHost(target)
             THEN EndRequest(p, Observe(o, "running", <<200>>,
                                        {"hijack", "established", "mitm"}, {}),
                             {}, "mitm_tls")
             ELSE EndRequest(p, Observe(o, "running", <<200>>,
                                        {"hijack", "established"}, {}),
                             {}, "conn_dial")
    /\ UNCHANGED <<cfg, requestSeq, idsIssued>>
    /\ HandlerFrame

\* handleConnect, lines 259-266: net.DialTimeout; on failure a 502 status
\* line is written after the 200 already flushed.
ConnectDial(p) ==
    /\ pc[p] = "conn_dial"
    /\ LET o == obs[p].req
           failed == {logErrorEntry(o.id, o.target, "connect", Err("dial failed", <<>>))}
       IN  \E ok \in BOOLEAN :
             IF ok
             THEN EndRequest(p, Observe(o, "running", <<>>, {"dial"}, {}),
                             {}, "conn_tunnel")
             ELSE EndRequest(p, Observe(o, "dial_failed", <<502>>, {"dial"}, failed),
                             failed, "idle")
    /\ UNCHANGED <<cfg, requestSeq, idsIssued>>
    /\ HandlerFrame

\* handleConnect, lines 268-292: tunnelConnections returns and the tunnel's
\* record is emitted.
ConnectTunnel(p) ==
    /\ pc[p] = "conn_tunnel"
    /\ LET o == obs[p].req
       IN  \E transferErr \in {NoErr, Err("transfer", <<>>)} :
             LET entry == {tunnelEntry(o.id, o.target, transferErr, cfg.enableMITM)}
             IN  EndRequest(p, Observe(o, "tunnel_done", <<>>, {}, entry),
                            entry, "idle")
    /\ UNCHANGED <<cfg, requestSeq, idsIssued>>
    /\ HandlerFrame

MitmSessionEnds_unrecorded(p, inner, err) ==
    LET o == obs[p].req
    IN  /\ obs' = [obs EXCEPT ![p] =
                      [req |-> Observe(o, IF err = NoErr THEN "mitm_clean"
                                          ELSE "mitm_error", <<>>, {}, {}),
                       inner |-> inner]]
        /\ logged' = logged
        /\ Goto(p, "idle")

\* handleMitmTLS returned err to handleConnect (lines 253-256): a nil error
\* ends the CONNECT without a record, any other is passed to logError with
\* the CONNECT's identifier and protocol "mitm".  inner is the observation
\* of the request the session read last.
MitmSessionEnds(p, inner, err) ==
    LET o == obs[p].req
        entry == IF err = NoErr THEN {}
                 ELSE {logErrorEntry(o.id, o.target, "mitm", err)}
    IN  /\ obs' = [obs EXCEPT ![p] =
                      [req |-> Observe(o, IF err = NoErr THEN "mitm_clean"
                                          ELSE "mitm_error", <<>>, {}, entry),
                       inner |-> inner]]
        /\ logged' = Record(logged, entry)
        /\ Goto(p, "idle")

\* handleMitmTLS, lines 170-192: the host split, the leaf, the handshake.
MitmTLS(p) ==
    /\ pc[p] = "mitm_tls"
    /\ LET target == obs[p].req.target
       IN  IF ContainsColon(target) /\ SplitHostPort(target).err
           THEN MitmSessionEnds(p, ObsNone, Err("split host", target))
           ELSE \E step \in {"leaf", "handshake", "ok"} :
                  IF step = "leaf"
                  THEN MitmSessionEnds(p, ObsNone, Err("issue leaf cert", <<>>))
                  ELSE IF step = "handshake"
                  THEN MitmSessionEnds(p, ObsNone, Err("client tls handshake", <<>>))
                  ELSE /\ Goto(p, "mitm_read")
                       /\ UNCHANGED <<obs, logged>>
    /\ UNCHANGED <<cfg, requestSeq, idsIssued>>
    /\ HandlerFrame

\* handleMitmTLS, lines 197-203: http.ReadRequest ends the session, cleanly
\* at end of stream and with an error otherwise.
MitmReadEnds(p) ==
    /\ pc[p] = "mitm_read"
    /\ \E err \in {NoErr, Err("read mitm request", <<>>)} :
         MitmSessionEnds(p, obs[p].inner, err)
    /\ UNCHANGED <<cfg, requestSeq, idsIssued>>
    /\ HandlerFrame

\* handleMitmTLS line 197 and processMitmRequest lines 214-215: a request
\* is read and draws its own identifier.
MitmReadRequest(p) ==
    /\ pc[p] = "mitm_read"
    /\ DrawID
    /\ obs' = [obs EXCEPT ![p].inner =
                  [Started("mitm", requestSeq') EXCEPT !.target = obs[p].req.target]]
    /\ Goto(p, "mitm_process")
    /\ UNCHANGED <<cfg, logged>>
    /\ HandlerFrame

\* handler.writeMitmStatus for the request observed as o: the status
\* response is written to the client and then the record is emitted; a
\* failed write returns the error instead, which ends the session.
writeMitmStatus(p, o, outcome, contacts, status, msg, arg) ==
    \E written \in BOOLEAN :
        LET entry == {Entry(o.id, "https", o.target, Err(msg, arg), status, "enabled")}
        IN  IF written
            THEN /\ obs' = [obs EXCEPT ![p].inner =
                               Observe(o, outcome, <<status>>, contacts, entry)]
                 /\ logged' = Record(logged, entry)
                 /\ Goto(p, "mitm_read")
            ELSE MitmSessionEnds(p, Observe(o, "mitm_write_failed", <<>>, contacts, {}),
                                 Err("write mitm status", <<>>))

\* processMitmRequest, lines 226-248: the request is normalised, cloned and
\* run through the request filters.
MitmProcess(p) ==
    /\ pc[p] = "mitm_process"
    /\ \E r \in MitmRequests :
         LET res == ChainApplyRequest(cfg.filters, r, 1, <<>>)
             o == WithCalls(obs[p].inner, res, r)
         IN  IF res.err # NoErr
             THEN writeMitmStatus(p, o, "mitm_req_rejected", {}, 403,
                                  "request blocked", res.err)
             ELSE /\ obs' = [obs EXCEPT ![p].inner = o]
                  /\ Goto(p, "mitm_roundtrip")
                  /\ UNCHANGED logged
    /\ UNCHANGED <<cfg, requestSeq, idsIssued>>
    /\ HandlerFrame

\* processMitmRequest, lines 250-265: the round trip, the response filters,
\* and resp.Write starting on the response.
MitmRoundTrip(p) ==
    /\ pc[p] = "mitm_roundtrip"
    /\ LET o == obs[p].inner
           e == ChainApplyResponse(cfg.filters, 1)
       IN  \E ok \in BOOLEAN :
             IF ~ok
             THEN writeMitmStatus(p, o, "mitm_upstream_error", {"roundtrip"},
                                  502, "upstream error", <<>>)
             ELSE IF e # NoErr
             THEN writeMitmStatus(p, o, "mitm_resp_rejected", {"roundtrip"},
                                  502, "response blocked", e)
             ELSE /\ obs' = [obs EXCEPT ![p].inner =
                                BodyStarts(Observe(o, "running", <<200>>,
                                                   {"roundtrip"}, {}))]
                  /\ Goto(p, "mitm_write")
                  /\ UNCHANGED logged
    /\ UNCHANGED <<cfg, requestSeq, idsIssued>>
    /\ HandlerFrame

\* processMitmRequest, lines 265-307: resp.Write returns; a failure ends
\* the session with its error, otherwise the record is emitted.
MitmWrite(p) ==
    /\ pc[p] = "mitm_write"
    /\ \E written \in BOOLEAN :
         LET o == [obs[p].inner EXCEPT !.upstreamBody = copyStreamEnds(written)]
             entry == {Entry(o.id, "https", o.target, NoErr, 200, "enabled")}
         IN  IF ~written
             THEN MitmSessionEnds(p, Observe(o, "mitm_write_failed", <<>>, {}, {}),
                                  Err("write mitm response", <<>>))
             ELSE /\ obs' = [obs EXCEPT ![p].inner =
                                Observe(o, "mitm_ok", <<>>, {}, entry)]
                  /\ logged' = Record(logged, entry)
                  /\ Goto(p, "mitm_read")
    /\ UNCHANGED <<cfg, requestSeq, idsIssued>>
    /\ HandlerFrame

Next ==
    \E p \in Handlers :
        \/ HttpStart(p)
        \/ HttpClone(p)
        \/ HttpRoundTrip(p)
        \/ HttpStream(p)
        \/ HttpRecord(p)
        \/ ConnectStart(p)
        \/ ConnectCheck(p)
        \/ ConnectDial(p)
        \/ ConnectTunnel(p)
        \/ MitmTLS(p)
        \/ MitmReadEnds(p)
        \/ MitmReadRequest(p)
        \/ MitmProcess(p)
        \/ MitmRoundTrip(p)
        \/ MitmWrite(p)

Init == InitHandlers /\ AllowedIdle /\ TeeIdle /\ LeafIdle /\ RestIdle

Spec == Init /\ [][Next]_vars

(***************************************************************************)
(* Properties of the handlers                                              *)
(***************************************************************************)

\* The request is over: its handler returned (or, for a request of a MITM
\* session, processMitmRequest returned).
Finished(o) == o.outcome \notin {"none", "running"}

\* The target of p's request has been through the allow-list check.
Checked(p) ==
    /\ obs[p].req.kind \in {"http", "connect"}
    /\ pc[p] \notin {"http_clone", "conn_check"}
    /\ obs[p].req.outcome # "clone_failed"

Seq1To(n) == [k \in 1..n |-> k]

C2_ConnectExactlyOneRecord ==
    \A p \in Handlers :
        LET o == obs[p].req
        IN  o.kind = "connect" /\ Finished(o) =>
                o.emitted = 1 /\ logged[o.id] = 1

\* C3: across every interleaving of the handlers (plain HTTP, CONNECT, MITM
\* requests) nextID never returns one identifier twice, and no two audit
\* records of a run carry the same id.
C3_IdsUnique ==
    /\ \A i, j \in DOMAIN idsIssued : i # j => idsIssued[i] # idsIssued[j]
    /\ \A id \in DOMAIN logged : logged[id] <= 1
    /\ \A p, q \in Handlers :
         /\ obs[p].req.id # 0 /\ obs[p].inner.id # 0
                => obs[p].req.id # obs[p].inner.id
         /\ p # q =>
              \A x \in {obs[p].req, obs[p].inner}, y \in {obs[q].req, obs[q].inner} :
                  x.id # 0 /\ y.id # 0 => x.id # y.id

\* All identifiers of the run are drawn, by a plain request, a CONNECT and a
\* request of its MITM session, and two goroutines were serving at once.
C3_Witness ==
    /\ Len(idsIssued) = MaxRequests
    /\ \E p, q \in Handlers :
         /\ p # q
         /\ obs[p].req.kind = "http" /\ obs[p].req.emitted = 1
         /\ obs[q].req.kind = "connect"
         /\ obs[q].inner.kind = "mitm" /\ obs[q].inner.emitted = 1
         /\ obs[p].req.id > obs[q].req.id
         /\ obs[p].req.id < obs[q].inner.id

\* C4: when some filter's ApplyRequest rejects a request, no filter later in
\* the chain is invoked for it, the chain returns that first rejection's
\* reason, and the handler (plain HTTP and MITM alike) makes no upstream
\* round trip for the request.
C4_FirstRejectionStopsChain ==
    \A p \in Handlers :
        /\ LET o == obs[p].req
           IN  o.kind = "http" /\ o.firstReject # 0 =>
                  /\ o.calls = Seq1To(o.firstReject)
                  /\ o.outcome = "req_rejected"
                  /\ "roundtrip" \notin o.contacts
                  /\ o.entries = {logErrorEntry(o.id, o.target, "http",
                                     Err("request filter rejected", o.rejectReason))}
        /\ LET o == obs[p].inner
           IN  o.kind = "mitm" /\ o.firstReject # 0 =>
                  /\ o.calls = Seq1To(o.firstReject)
                  /\ o.outcome \in {"mitm_req_rejected", "mitm_write_failed"}
                  /\ "roundtrip" \notin o.contacts
                  /\ o.outcome = "mitm_req_rejected" =>
                        o.entries = {Entry(o.id, "https", o.target,
                                           Err("request blocked", o.rejectReason),
                                           403, "enabled")}

\* A plain request and a request of a MITM session were both rejected by a
\* filter that is neither the first nor the last of the chain.
C4_Witness ==
    \E p, q \in Handlers :
        /\ obs[p].req.kind = "http" /\ obs[p].req.outcome = "req_rejected"
        /\ obs[p].req.firstReject = 3 /\ Len(cfg.filters) = 5
        /\ obs[q].inner.kind = "mitm" /\ obs[q].inner.outcome = "mitm_req_rejected"
        /\ obs[q].inner.firstReject = 2

\* C9: a request or CONNECT whose target fails the allow-list check is
\* answered 403 with a record whose error is "blocked host: <target>", and
\* no upstream contact is made for it: no round trip, no hijack, no 200
\* Connection Established, no dial, no MITM hand-off.
C9_BlockedHost ==
    \A p \in Handlers :
        LET o == obs[p].req
        IN  Checked(p) /\ ~allowed(cfg.allowHosts, o.target) =>
               /\ o.outcome = "blocked"
               /\ o.status = <<403>>
               /\ o.contacts = {}
               /\ obs[p].inner = ObsNone
               /\ o.entries = {Entry(o.id, o.kind, o.target,
                                     Err("blocked host", o.target), 0, "")}
               /\ logged[o.id] = 1

\* A plain request and a CONNECT for a host the allow-list does not name
\* were both refused.
C9_Witness ==
    \E p, q \in Handlers :
        /\ obs[p].req.kind = "http" /\ obs[p].req.outcome = "blocked"
        /\ obs[p].req.target = <<"b", ":", "1">>
        /\ obs[q].req.kind = "connect" /\ obs[q].req.outcome = "blocked"
        /\ obs[q].req.target = <<"b", ":", "1">>
        /\ cfg.allowHosts = << <<"a">> >>

\* C10: the status a client receives for a CONNECT follows the outcome: 200
\* Connection Established when the tunnel is established, 403 on allow-list
\* rejection, 502 on upstream dial failure; a CONNECT whose dial fails is
\* answered with 502 and not with 200.
C10_ConnectStatusByOutcome ==
    \A p \in Handlers :
        LET o == obs[p].req
        IN  o.kind = "connect" =>
               /\ o.outcome = "tunnel_done" => o.status = <<200>>
               /\ o.outcome = "blocked" => o.status = <<403>>
               /\ o.outcome = "dial_failed" =>
                      /\ Head(o.status) = 502
                      /\ \A k \in DOMAIN o.status : o.status[k] # 200

\* The host name of a target with its port stripped.
HostName(target) ==
    IF ContainsColon(target) THEN SubSeq(target, 1, LastColon(target) - 1)
    ELSE target

\* The host name of the target is in the disable-hosts set, whatever the
\* letter case.
OnDisableList(target) ==
    \E i \in 1..Len(cfg.mitmDisabled) :
        Fold(cfg.mitmDisabled[i]) = Fold(HostName(target))

\* C11: after the 200 reply a CONNECT is handed to the MITM interceptor if
\* and only if MITM is enabled and the target's host name (port stripped,
\* compared case-insensitively) is not in the disable-hosts set; otherwise
\* the upstream is dialled and bytes are tunnelled raw.  No CONNECT is both
\* MITM-terminated and raw-tunnelled.
C11_MitmOrTunnel ==
    \A p \in Handlers :
        LET o == obs[p].req
            handed == cfg.enableMITM /\ ~OnDisableList(o.target)
        IN  o.kind = "connect" /\ "established" \in o.contacts =>
               /\ "mitm" \in o.contacts <=> handed
               /\ ~handed =>
                     /\ pc[p] # "conn_dial" => "dial" \in o.contacts
                     /\ obs[p].inner = ObsNone
                     /\ Finished(o) => o.outcome \in {"dial_failed", "tunnel_done"}
               /\ handed =>
                     /\ "dial" \notin o.contacts
                     /\ Finished(o) => o.outcome \in {"mitm_clean", "mitm_error"}
               /\ ~("mitm" \in o.contacts /\ "dial" \in o.contacts)

\* Under one configuration with MITM enabled, a CONNECT to a host on the
\* disable list (in another letter case) was tunnelled raw and a CONNECT to
\* another host was handed to the interceptor.
C11_Witness ==
    \E p, q \in Handlers :
        /\ cfg.enableMITM
        /\ obs[p].req.outcome = "tunnel_done"
        /\ obs[p].req.target = <<"b", ":", "1">>
        /\ obs[q].req.kind = "connect" /\ "mitm" \in obs[q].req.contacts
        /\ obs[q].inner.outcome = "mitm_ok"

\* The CONNECT of goroutine p was handed to the MITM interceptor.
OnMitmPath(p) == obs[p].req.kind = "connect" /\ "mitm" \in obs[p].req.contacts

\* C12: every audit record produced on the MITM path (successful requests,
\* filter rejections, upstream failures, TLS handshake failures, read
\* failures, response write failures) carries attribute mitm = "enabled" and
\* protocol "https".
C12_MitmRecordsHttpsEnabled ==
    \A p \in Handlers :
        OnMitmPath(p) =>
            \A e \in obs[p].req.entries \cup obs[p].inner.entries :
                e.mitm = "enabled" /\ e.protocol = "https"

(***************************************************************************)
(* tunnelConnections and the record of a raw tunnel                        *)
(*                                                                         *)
(* Two goroutines copy, one per direction; each sends the error its        *)
(* io.Copy returned to errCh (capacity 2).  The caller receives twice,     *)
(* keeps the first error that is not benign and returns it; handleConnect  *)
(* then builds the tunnel's record.  The clock is the monotonic reading    *)
(* time.Since compares.                                                    *)
(***************************************************************************)

\* Bytes one direction of the tunnel carries at most.
MaxTunnelBytes == 1

\* Latest clock reading of a tunnel.
MaxTunnelClock == 2

\* client to upstream, upstream to client
Directions == {"c2u", "u2c"}

\* The two ends of the tunnel, and the one each direction reads from.
Sides == {"client", "upstream"}

Source(d) == IF d = "c2u" THEN "client" ELSE "upstream"

\* What io.Copy can return: nil at end of stream, or an error.
CopyErrors == {"nil", "eof", "canceled", "closed", "reset", "timeout"}

errorsIsBenign_noClosed(err) ==
    IF err = "nil" THEN FALSE
    ELSE err \in {"canceled", "eof"}

\* errorsIsBenign
errorsIsBenign(err) ==
    IF err = "nil" THEN FALSE
    ELSE IF err \in {"canceled", "eof"} THEN TRUE
    ELSE IF err = "closed" THEN TRUE
    ELSE FALSE

Since_reversed(start, now) == start - now

\* time.Since(start) on the monotonic clock
Since(start, now) == now - start

\* The identifier and target of the CONNECT whose tunnel is modelled.
TunnelID == 1

TunnelTarget == <<"b", ":", "1">>

InitTunnel ==
    /\ tnMitm \in BOOLEAN
    /\ tnClock = 0
    /\ tnStart = 0
    /\ tnDir = [d \in Directions |-> [state |-> "copying", bytes |-> 0, err |-> "nil"]]
    /\ tnErrCh = <<>>
    /\ tnReceived = <<>>
    /\ tnFirstErr = "nil"
    /\ tnPc = "collect"
    /\ tnResult = "nil"
    /\ tnEntries = {}
    /\ tnLatency = 0
    /\ tnPeer = [s \in Sides |-> "open"]

\* The clock advances while the tunnel is up.
TunnelTick ==
    /\ tnPc # "recorded"
    /\ tnClock < MaxTunnelClock
    /\ tnClock' = tnClock + 1
    /\ UNCHANGED <<tnMitm, tnStart, tnDir, tnErrCh, tnReceived, tnFirstErr, tnPc,
                   tnResult, tnEntries, tnLatency>>
    /\ UNCHANGED tnPeer
    /\ TunnelFrame

\* io.Copy of direction d moves a byte.
TunnelCopy(d) ==
    /\ tnDir[d].state = "copying"
    /\ tnDir[d].bytes < MaxTunnelBytes
    /\ tnDir' = [tnDir EXCEPT ![d].bytes = @ + 1]
    /\ UNCHANGED <<tnMitm, tnClock, tnStart, tnErrCh, tnReceived, tnFirstErr, tnPc,
                   tnResult, tnEntries, tnLatency>>
    /\ UNCHANGED tnPeer
    /\ TunnelFrame

\* The peer on one side closes its connection.  Nothing in the tunnel
\* passes the close on: the other connection is closed only by the deferred
\* Close calls of handleConnect, after tunnelConnections has returned.
TunnelPeerCloses(side) ==
    /\ tnPc = "collect"
    /\ tnPeer[side] = "open"
    /\ tnPeer' = [tnPeer EXCEPT ![side] = "closed"]
    /\ UNCHANGED <<tnMitm, tnClock, tnStart, tnDir, tnErrCh, tnReceived, tnFirstErr,
                   tnPc, tnResult, tnEntries, tnLatency>>
    /\ TunnelFrame

\* io.Copy of direction d reads the end of the stream its peer closed and
\* returns nil.
TunnelCopyEOF(d) ==
    /\ tnDir[d].state = "copying"
    /\ tnPeer[Source(d)] = "closed"
    /\ tnDir' = [tnDir EXCEPT ![d].state = "ended", ![d].err = "nil"]
    /\ UNCHANGED <<tnMitm, tnClock, tnStart, tnErrCh, tnReceived, tnFirstErr, tnPc,
                   tnResult, tnEntries, tnLatency>>
    /\ UNCHANGED tnPeer
    /\ TunnelFrame

\* io.Copy of direction d returns an error of a read or a write.
TunnelCopyEnds(d) ==
    /\ tnDir[d].state = "copying"
    /\ \E err \in CopyErrors \ {"nil"} :
         tnDir' = [tnDir EXCEPT ![d].state = "ended", ![d].err = err]
    /\ UNCHANGED <<tnMitm, tnClock, tnStart, tnErrCh, tnReceived, tnFirstErr, tnPc,
                   tnResult, tnEntries, tnLatency>>
    /\ UNCHANGED tnPeer
    /\ TunnelFrame

\* errCh <- err in the goroutine of direction d (after the flush, for the
\* upstream-to-client one); the channel has room for both.
TunnelSend(d) ==
    /\ tnDir[d].state = "ended"
    /\ tnDir' = [tnDir EXCEPT ![d].state = "sent"]
    /\ tnErrCh' = Append(tnErrCh, tnDir[d].err)
    /\ UNCHANGED <<tnMitm, tnClock, tnStart, tnReceived, tnFirstErr, tnPc,
                   tnResult, tnEntries, tnLatency>>
    /\ UNCHANGED tnPeer
    /\ TunnelFrame

\* One iteration of the receiving loop of tunnelConnections.
TunnelReceive ==
    /\ tnPc = "collect"
    /\ Len(tnReceived) < 2
    /\ tnErrCh # <<>>
    /\ LET err == Head(tnErrCh)
       IN  /\ tnFirstErr' = IF err # "nil" /\ ~errorsIsBenign(err) /\ tnFirstErr = "nil"
                            THEN err ELSE tnFirstErr
           /\ tnReceived' = Append(tnReceived, err)
    /\ tnErrCh' = Tail(tnErrCh)
    /\ UNCHANGED <<tnMitm, tnClock, tnStart, tnDir, tnPc, tnResult, tnEntries,
                   tnLatency>>
    /\ UNCHANGED tnPeer
    /\ TunnelFrame

\* return firstErr
TunnelReturn ==
    /\ tnPc = "collect"
    /\ Len(tnReceived) = 2
    /\ tnPc' = "returned"
    /\ tnResult' = tnFirstErr
    /\ UNCHANGED <<tnMitm, tnClock, tnStart, tnDir, tnErrCh, tnReceived, tnFirstErr,
                   tnEntries, tnLatency>>
    /\ UNCHANGED tnPeer
    /\ TunnelFrame

\* handleConnect, lines 270-292: the latency, the entry, logger.Record.
TunnelRecord ==
    /\ tnPc = "returned"
    /\ tnLatency' = Since(tnStart, tnClock)
    /\ LET transferErr == IF tnResult # "nil" /\ tnResult # "canceled"
                          THEN Err(tnResult, <<>>) ELSE NoErr
       IN  tnEntries' = tnEntries \cup
                            {tunnelEntry(TunnelID, TunnelTarget, transferErr, tnMitm)}
    /\ tnPc' = "recorded"
    /\ UNCHANGED <<tnMitm, tnClock, tnStart, tnDir, tnErrCh, tnReceived, tnFirstErr,
                   tnResult>>
    /\ UNCHANGED tnPeer
    /\ TunnelFrame

NextTunnel ==
    \/ TunnelTick
    \/ \E d \in Directions : TunnelCopy(d)
    \/ \E side \in Sides : TunnelPeerCloses(side)
    \/ \E d \in Directions : TunnelCopyEOF(d)
    \/ \E d \in Directions : TunnelCopyEnds(d)
    \/ \E d \in Directions : TunnelSend(d)
    \/ TunnelReceive
    \/ TunnelReturn
    \/ TunnelRecord

InitSpecTunnel ==
    InitTunnel /\ AllowedIdle /\ TeeIdle /\ LeafIdle /\ HandlersIdle /\ ExcerptIdle
    /\ ShutdownIdle /\ HeaderBlockIdle
    /\ SanitiseIdle
    /\ RegistryIdle
    /\ BufferIdle
    /\ StreamIdle
    /\ CloneIdle
    /\ SessionIdle

SpecTunnel == InitSpecTunnel /\ [][NextTunnel]_vars

\* What the scheduler and the network stack guarantee: a copy whose source
\* was closed reads the end of the stream, a goroutine that can send, receive,
\* return or record does so.  That a peer sends, closes or fails is not
\* guaranteed.
TunnelFairness ==
    /\ \A d \in Directions : WF_vars(TunnelCopyEOF(d))
    /\ \A d \in Directions : WF_vars(TunnelSend(d))
    /\ WF_vars(TunnelReceive)
    /\ WF_vars(TunnelReturn)
    /\ WF_vars(TunnelRecord)

SpecTunnelFair == InitSpecTunnel /\ [][NextTunnel]_vars /\ TunnelFairness

\* C13: a raw CONNECT tunnel that completes (also one that carried no byte
\* in either direction) emits one record with protocol "connect", latency
\* >= 0, no request and no response section, and a mitm attribute that is
\* "planned" when MITM is enabled and "disabled" when it is not.
C13_TunnelRecord ==
    /\ tnPc # "recorded" => tnEntries = {}
    /\ tnPc = "recorded" =>
          /\ Cardinality(tnEntries) = 1
          /\ tnLatency >= 0
          /\ \A e \in tnEntries :
                /\ e.id = TunnelID
                /\ e.protocol = "connect"
                /\ ~e.request
                /\ e.status = 0
                /\ e.mitm = IF tnMitm THEN "planned" ELSE "disabled"

\* A tunnel that carried nothing in either direction and stayed up for a
\* while has its record, with MITM enabled.
C13_Witness ==
    /\ tnPc = "recorded"
    /\ \A d \in Directions : tnDir[d].bytes = 0
    /\ tnLatency > 0
    /\ tnMitm

\* The ways a copy direction ends that are no error.
BenignEnds == {"nil", "eof", "canceled", "closed"}

\* The first of the errors reported that is not benign ("nil" when all are).
FirstNonBenign(reported) ==
    IF \E i \in 1..Len(reported) : reported[i] \notin BenignEnds
    THEN reported[CHOOSE i \in 1..Len(reported) :
                     /\ reported[i] \notin BenignEnds
                     /\ \A j \in 1..(i-1) : reported[j] \in BenignEnds]
    ELSE "nil"

\* C17: tunnelConnections returns only after both copy directions have
\* terminated; when both end benignly (EOF, context cancellation,
\* closed-socket error) it returns nil, so the tunnel's record carries no
\* error; otherwise it returns the first non-benign error reported.
C17_TunnelReturns ==
    tnPc \in {"returned", "recorded"} =>
        /\ \A d \in Directions : tnDir[d].state = "sent"
        /\ Len(tnReceived) = 2
        /\ {tnReceived[1], tnReceived[2]} = {tnDir[d].err : d \in Directions}
        /\ tnResult = FirstNonBenign(tnReceived)
        /\ tnPc = "recorded" =>
              \A e \in tnEntries :
                  e.error = IF tnResult = "nil" THEN NoErr ELSE Err(tnResult, <<>>)

\* One direction ended on a closed socket and the other on a cancelled
\* context: the tunnel returned nil and its record has no error.
C17_Witness ==
    /\ tnPc = "recorded"
    /\ tnReceived = <<"closed", "canceled">>
    /\ tnResult = "nil"
    /\ \E e \in tnEntries : e.error = NoErr

(***************************************************************************)
(* The excerpt buffers of the handlers and their pool                      *)
(*                                                                         *)
(* handleHTTP and processMitmRequest capture the first bytes of the        *)
(* request and response bodies in LimitedBuffers taken from h.bufPool and  *)
(* put back by a deferred releaseBuffer.  Buffers are named by their index *)
(* in exBufs (0 is the nil buffer); a byte captured for request k is       *)
(* written as k.                                                           *)
(***************************************************************************)

\* Largest excerpt limit configured.
MaxExcerptLimit == 1

\* Most bytes a body carries.
MaxBodyBytes == 1

\* Requests handled in one run.
MaxExcerptRequests == 2

ExLocIdle ==
    [path |-> "none", req |-> 0, body |-> "none", requestBuf |-> 0,
     responseBuf |-> 0, tees |-> {}, outcome |-> "none", streamed |-> 0,
     requestExcerpt |-> <<>>, responseExcerpt |-> <<>>]

InitExcerpt ==
    /\ exLimit \in 0..MaxExcerptLimit
    /\ exBufs = <<>>
    /\ exPool = {}
    /\ exGets = 0
    /\ exPuts = 0
    /\ exReqs = 0
    /\ exPc = [p \in Handlers |-> "idle"]
    /\ exLoc = [p \in Handlers |-> ExLocIdle]
    /\ exStale = {}

captureEnabled_always(limit) == TRUE

releaseBuffer_dropped(bufs, pool, puts, id) ==
    [bufs |-> bufs, pool |-> pool, puts |-> puts]

\* h.excerptLimit > 0, the guard of every tee installation
captureEnabled(limit) == limit > 0

\* What h.bufPool.Get() may hand out: a pooled buffer, or a new one (0) when
\* the pool is empty.
PoolChoices(pool) == IF pool = {} THEN {0} ELSE pool

\* handler.acquireBuffer with the pool handing out pick: [id: the buffer
\* returned (0 for nil), bufs, pool, gets: the state afterwards].
acquireBuffer(bufs, pool, gets, pick) ==
    IF exLimit <= 0 THEN [id |-> 0, bufs |-> bufs, pool |-> pool, gets |-> gets]
    ELSE IF pick = 0
    THEN [id |-> Len(bufs) + 1,
          bufs |-> Append(bufs, LimitedBufferReset(NewLimitedBuffer(exLimit), exLimit)),
          pool |-> pool, gets |-> gets + 1]
    ELSE [id |-> pick,
          bufs |-> [bufs EXCEPT ![pick] = LimitedBufferReset(@, exLimit)],
          pool |-> pool \ {pick}, gets |-> gets + 1]

\* handler.releaseBuffer(buf): [bufs, pool, puts] afterwards.
releaseBuffer(bufs, pool, puts, id) ==
    IF id = 0 \/ exLimit <= 0 THEN [bufs |-> bufs, pool |-> pool, puts |-> puts]
    ELSE [bufs |-> [bufs EXCEPT ![id] = LimitedBufferReset(@, exLimit)],
          pool |-> pool \cup {id}, puts |-> puts + 1]

\* n bytes of request k read through a tee on buffer id (0: no buffer).
TeeInto(bufs, id, k, n) ==
    IF id = 0 THEN bufs
    ELSE [bufs EXCEPT ![id] = TeeRead(@, [i \in 1..n |-> k])]

\* The contents of buffer id ("" for the nil buffer).
ExcerptOf(bufs, id) == IF id = 0 THEN <<>> ELSE bufs[id].buf

ExGoto(p, where) == exPc' = [exPc EXCEPT ![p] = where]

\* A handler starts on a request, plain or read from a decrypted stream,
\* with or without a body.  Handlers are interchangeable goroutines: the
\* request goes to the first one that is free.
ExStart(p) ==
    /\ exPc[p] = "idle"
    /\ \A q \in Handlers : q < p => exPc[q] # "idle"
    /\ exReqs < MaxExcerptRequests
    /\ exReqs' = exReqs + 1
    /\ \E path \in {"http", "mitm"}, body \in {"none", "body"} :
         exLoc' = [exLoc EXCEPT ![p] =
                      [ExLocIdle EXCEPT !.path = path, !.req = exReqs', !.body = body,
                                        !.outcome = "running"]]
    /\ ExGoto(p, "request_tee")
    /\ UNCHANGED <<exLimit, exBufs, exPool, exGets, exPuts>>
    /\ UNCHANGED exStale
    /\ ExcerptFrame

\* handleHTTP lines 139-142, processMitmRequest lines 241-244.
ExRequestTee(p) ==
    /\ exPc[p] = "request_tee"
    /\ IF captureEnabled(exLimit) /\ exLoc[p].body = "body"
       THEN \E pick \in PoolChoices(exPool) :
              LET a == acquireBuffer(exBufs, exPool, exGets, pick)
              IN  /\ exBufs' = a.bufs
                  /\ exPool' = a.pool
                  /\ exGets' = a.gets
                  /\ exLoc' = [exLoc EXCEPT ![p].requestBuf = a.id,
                                            ![p].tees = @ \cup {"request"}]
       ELSE UNCHANGED <<exBufs, exPool, exGets, exLoc>>
    /\ ExGoto(p, "send")
    /\ UNCHANGED <<exLimit, exPuts, exReqs>>
    /\ UNCHANGED exStale
    /\ ExcerptFrame

\* The request filters and the round trip (handleHTTP lines 144-155,
\* processMitmRequest lines 246-253): the transport reads n bytes of the
\* request body, through the tee when there is one.  Error records carry
\* no excerpt.
ExSend(p) ==
    /\ exPc[p] = "send"
    /\ \E res \in {"req_rejected", "upstream_error", "ok"}, n \in 0..MaxBodyBytes :
         LET l == exLoc[p]
             read == IF l.body = "body" /\ "request" \in l.tees THEN n ELSE 0
         IN  IF res = "req_rejected"
             THEN /\ exLoc' = [exLoc EXCEPT ![p].outcome = res]
                  /\ ExGoto(p, "release")
                  /\ UNCHANGED exBufs
             ELSE /\ exBufs' = TeeInto(exBufs, l.requestBuf, l.req, read)
                  /\ exLoc' = [exLoc EXCEPT ![p].outcome =
                                  IF res = "ok" THEN "running" ELSE res]
                  /\ ExGoto(p, IF res = "ok" THEN "response" ELSE "release")
    /\ UNCHANGED <<exLimit, exPool, exGets, exPuts, exReqs>>
    /\ UNCHANGED exStale
    /\ ExcerptFrame

\* The response tee and the response filters: handleHTTP installs the tee
\* (lines 156-159) before the filters run (162-166), processMitmRequest
\* after them (256-263).  resp.Body of a round trip is never nil.
ExResponse(p) ==
    /\ exPc[p] = "response"
    /\ \E rejected \in BOOLEAN :
         LET l == exLoc[p]
             install == captureEnabled(exLimit) /\ (l.path = "http" \/ ~rejected)
         IN  /\ IF install
                THEN \E pick \in PoolChoices(exPool) :
                       LET a == acquireBuffer(exBufs, exPool, exGets, pick)
                       IN  /\ exBufs' = a.bufs
                           /\ exPool' = a.pool
                           /\ exGets' = a.gets
                           /\ exLoc' = [exLoc EXCEPT
                                  ![p].responseBuf = a.id,
                                  ![p].tees = @ \cup {"response"},
                                  ![p].outcome = IF rejected THEN "resp_rejected" ELSE @]
                ELSE /\ exLoc' = [exLoc EXCEPT
                                  ![p].outcome = IF rejected THEN "resp_rejected" ELSE @]
                     /\ UNCHANGED <<exBufs, exPool, exGets>>
             /\ ExGoto(p, IF rejected THEN "release" ELSE "stream")
    /\ UNCHANGED <<exLimit, exPuts, exReqs>>
    /\ UNCHANGED exStale
    /\ ExcerptFrame

\* The response body goes to the client (copyStream, lines 171-177;
\* resp.Write, filters.go line 265): n bytes pass, through the tee when
\* there is one.  A failed resp.Write ends processMitmRequest without a
\* record; a failed copy in handleHTTP is only logged.
ExStream(p) ==
    /\ exPc[p] = "stream"
    /\ \E n \in 0..MaxBodyBytes, ok \in BOOLEAN :
         LET l == exLoc[p]
             through == IF "response" \in l.tees THEN l.responseBuf ELSE 0
         IN  /\ exBufs' = TeeInto(exBufs, through, l.req, n)
             /\ IF ~ok /\ l.path = "mitm"
                THEN /\ exLoc' = [exLoc EXCEPT ![p].streamed = n,
                                               ![p].outcome = "write_failed"]
                     /\ ExGoto(p, "release")
                ELSE /\ exLoc' = [exLoc EXCEPT ![p].streamed = n]
                     /\ ExGoto(p, "record")
    /\ UNCHANGED <<exLimit, exPool, exGets, exPuts, exReqs>>
    /\ UNCHANGED exStale
    /\ ExcerptFrame

\* The success record (handleHTTP lines 189-196, processMitmRequest lines
\* 282-289): an excerpt attribute for each buffer that is set and not empty.
ExRecord(p) ==
    /\ exPc[p] = "record"
    /\ LET l == exLoc[p]
       IN  exLoc' = [exLoc EXCEPT
               ![p].outcome = "recorded",
               ![p].requestExcerpt = ExcerptOf(exBufs, l.requestBuf),
               ![p].responseExcerpt = ExcerptOf(exBufs, l.responseBuf)]
    /\ ExGoto(p, "release")
    /\ UNCHANGED <<exLimit, exBufs, exPool, exGets, exPuts, exReqs>>
    /\ UNCHANGED exStale
    /\ ExcerptFrame

\* The deferred releases (handleHTTP lines 121-124, processMitmRequest lines
\* 221-224) as the handler returns; its locals are gone afterwards.  The
\* request body handed to the transport stays wrapped in its tee: RoundTrip
\* may go on reading and closing the body in a goroutine of its own after it
\* has returned, and nothing in the handler waits for that.
ExRelease(p) ==
    /\ exPc[p] = "release"
    /\ LET l == exLoc[p]
           r1 == releaseBuffer(exBufs, exPool, exPuts, l.requestBuf)
           r2 == releaseBuffer(r1.bufs, r1.pool, r1.puts, l.responseBuf)
       IN  /\ exBufs' = r2.bufs
           /\ exPool' = r2.pool
           /\ exPuts' = r2.puts
           /\ exStale' = exStale \cup
                  IF l.requestBuf # 0 /\ l.outcome # "req_rejected"
                  THEN {<<l.requestBuf, l.req>>} ELSE {}
    /\ exLoc' = [exLoc EXCEPT ![p] = ExLocIdle]
    /\ ExGoto(p, "idle")
    /\ UNCHANGED <<exLimit, exGets, exReqs>>
    /\ ExcerptFrame

\* The transport's write goroutine reads one more byte of a request body
\* whose handler has returned: TeeReadCloser.Read writes it to the buffer
\* the tee was built on, wherever that buffer is by now.
ExLateRead ==
    /\ \E t \in exStale :
          /\ exBufs' = TeeInto(exBufs, t[1], t[2], 1)
          /\ exStale' = exStale \ {t}
    /\ UNCHANGED <<exLimit, exPool, exGets, exPuts, exReqs, exPc, exLoc>>
    /\ ExcerptFrame

NextExcerpt ==
    \/ \E p \in Handlers :
          \/ ExStart(p)
          \/ ExRequestTee(p)
          \/ ExSend(p)
          \/ ExResponse(p)
          \/ ExStream(p)
          \/ ExRecord(p)
          \/ ExRelease(p)
    \/ ExLateRead

InitSpecExcerpt ==
    InitExcerpt /\ AllowedIdle /\ TeeIdle /\ LeafIdle /\ HandlersIdle /\ TunnelIdle
    /\ ShutdownIdle /\ HeaderBlockIdle
    /\ SanitiseIdle
    /\ RegistryIdle
    /\ BufferIdle
    /\ StreamIdle
    /\ CloneIdle
    /\ SessionIdle

SpecExcerpt == InitSpecExcerpt /\ [][NextExcerpt]_vars

\* C14: with excerpt limit 0 no tee is ever installed on a request or
\* response body, no buffer is acquired from or returned to the pool, and
\* no record contains a request_excerpt or response_excerpt attribute, on
\* the plain HTTP path and the MITM path alike.
C14_NoCaptureAtLimitZero ==
    exLimit = 0 =>
        /\ exGets = 0 /\ exPuts = 0
        /\ exBufs = <<>> /\ exPool = {}
        /\ \A p \in Handlers :
              /\ exLoc[p].tees = {}
              /\ exLoc[p].requestBuf = 0 /\ exLoc[p].responseBuf = 0
              /\ exLoc[p].requestExcerpt = <<>>
              /\ exLoc[p].responseExcerpt = <<>>

\* With limit 0 a plain request and a MITM request, both with a body, were
\* answered with a body and recorded, and their handlers are about to
\* return.
C14_Witness ==
    /\ exLimit = 0
    /\ \E p, q \in Handlers :
         /\ exLoc[p].path = "http" /\ exLoc[q].path = "mitm"
         /\ \A x \in {p, q} :
              /\ exPc[x] = "release"
              /\ exLoc[x].outcome = "recorded"
              /\ exLoc[x].body = "body"
              /\ exLoc[x].streamed > 0

\* The buffers handler p holds.
Held(p) == {exLoc[p].requestBuf, exLoc[p].responseBuf} \ {0}

\* C27: every buffer acquired by handleHTTP or processMitmRequest is
\* returned to the pool exactly once before the handler returns, on every
\* exit path: the buffers taken and not yet put back are those the running
\* handlers hold, each held by one handler and none of them in the pool, and
\* a handler that has returned holds none.
C27_BuffersReturnedOnce ==
    /\ exGets - exPuts = Cardinality(UNION {Held(p) : p \in Handlers})
    /\ \A p \in Handlers :
          /\ Held(p) \cap exPool = {}
          /\ exLoc[p].requestBuf # 0 => exLoc[p].requestBuf # exLoc[p].responseBuf
          /\ \A q \in Handlers \ {p} : Held(p) \cap Held(q) = {}
          /\ exPc[p] = "idle" => Held(p) = {}
    /\ (\A p \in Handlers : exPc[p] = "idle") =>
          /\ exGets = exPuts
          /\ exPool = 1..Len(exBufs)

\* One handler has returned its buffers and the other, whose write of the
\* response to the client failed, is about to return with two buffers.
C27_Witness ==
    \E p \in Handlers : \E q \in Handlers :
        /\ exPc[p] = "idle" /\ exPuts > 0
        /\ exPc[q] = "release" /\ exLoc[q].outcome = "write_failed"
        /\ Cardinality(Held(q)) = 2
        /\ exGets - exPuts = 2

\* The bytes in buffer id were all captured for request k.
OwnBytes(b, k) == \A i \in 1..Len(b) : b[i] = k

\* Handler p has just been handed the buffer: the step set one of its two
\* buffer variables.
JustAcquired(p, id) ==
    /\ id # 0
    /\ \/ exLoc[p].requestBuf = 0 /\ exLoc'[p].requestBuf = id
       \/ exLoc[p].responseBuf = 0 /\ exLoc'[p].responseBuf = id

\* C28: a buffer returned by acquireBuffer is empty with ceiling equal to
\* the configured excerpt limit, whatever acquires, writes and releases
\* preceded it, so the buffers a handler holds and the excerpts it records
\* never contain bytes captured for another request.
C28_AcquiredBufferFresh ==
    /\ [][\A p \in Handlers : \A id \in 1..Len(exBufs') :
            JustAcquired(p, id) => exBufs'[id] = [buf |-> <<>>, limit |-> exLimit]]_vars
    /\ [](\A p \in Handlers :
            /\ \A id \in Held(p) : OwnBytes(exBufs[id].buf, exLoc[p].req)
            /\ OwnBytes(exLoc[p].requestExcerpt, exLoc[p].req)
            /\ OwnBytes(exLoc[p].responseExcerpt, exLoc[p].req))

\* The observations of the requests goroutine p handles or handled last.
Slots(p) == {obs[p].req, obs[p].inner}

\* C15: within a single request (plain HTTP and MITM) the audit record is
\* handed to the logger only after the response status, headers and body
\* have been completely written to the client, or after the response was
\* aborted with an error; never while the body is still being streamed.
C15_RecordAfterStream ==
    \A p \in Handlers : \A o \in Slots(p) :
        /\ o.upstreamBody = "streaming" => o.emitted = 0 /\ logged[o.id] = 0
        /\ o.outcome \in {"streamed", "mitm_ok"} =>
              /\ o.emitted = 1
              /\ o.upstreamBody \in {"complete", "aborted"}
              /\ Head(o.status) = 200

\* A plain request was recorded after its body was aborted part-way, and a
\* MITM request after its body was written completely.
C15_Witness ==
    \E p, q \in Handlers :
        /\ obs[p].req.outcome = "streamed"
        /\ obs[p].req.upstreamBody = "aborted"
        /\ obs[q].inner.outcome = "mitm_ok"
        /\ obs[q].inner.upstreamBody = "complete"

\* C16: on the plain HTTP path a request-filter rejection is answered 403,
\* a round-trip failure 502 and a response-filter rejection 502; in each
\* case exactly one record with a non-empty error and no response section
\* is emitted, and no upstream response body byte is streamed to the client.
C16_HttpErrorPaths ==
    \A p \in Handlers :
        LET o == obs[p].req
        IN  o.kind = "http"
            /\ o.outcome \in {"req_rejected", "upstream_error", "resp_rejected"} =>
               /\ o.status = IF o.outcome = "req_rejected" THEN <<403>> ELSE <<502>>
               /\ o.emitted = 1
               /\ logged[o.id] = 1
               /\ Cardinality(o.entries) = 1
               /\ \A e \in o.entries :
                     /\ e.id = o.id
                     /\ e.error # NoErr /\ e.error.msg # ""
                     /\ e.status = 0
               /\ o.upstreamBody = "none"
               /\ "roundtrip" \in o.contacts <=> o.outcome # "req_rejected"

\* One plain request was rejected by the header filter of the default chain
\* and another by a response filter.
C16_Witness ==
    \E p, q \in Handlers :
        /\ obs[p].req.kind = "http" /\ obs[p].req.outcome = "req_rejected"
        /\ obs[p].req.rejectReason = Err("blocked by header filter", <<"B">>)
        /\ obs[q].req.kind = "http"
        /\ obs[q].req.outcome \in {"resp_rejected", "upstream_error"}

(***************************************************************************)
(* Server.Shutdown                                                         *)
(*                                                                         *)
(* The server accepts connections whose handlers run and finish, leaving   *)
(* their upstream connection idle in the transport or not.  A CONNECT      *)
(* handed to handleMitmTLS runs on a hijacked connection, which            *)
(* http.Server.Shutdown neither waits for nor closes.  Shutdown calls      *)
(* transport.CloseIdleConnections and then httpServer.Shutdown(ctx), which *)
(* closes the listener and waits until no handler is in flight or ctx is   *)
(* done.  sdLog is the order of the steps of Shutdown.                     *)
(***************************************************************************)

\* Handlers in flight at once.
MaxInflight == 2

\* Connections accepted in one run.
MaxAccepted == 3

\* Requests a MITM session reads.
MaxSessionReads == 2

InitShutdown ==
    /\ sdPc = "serving"
    /\ sdListener = TRUE
    /\ sdInflight = 0
    /\ sdAccepted = 0
    /\ sdIdleUpstream = 0
    /\ sdExpired = FALSE
    /\ sdSession = "none"
    /\ sdReads = 0
    /\ sdReadsAfter = 0
    /\ sdLog = <<>>

\* Shutdown has been called.
ShutdownSignalled == sdPc # "serving"

\* The listener accepts a connection and its handler starts.
SdAccept ==
    /\ sdListener
    /\ sdInflight < MaxInflight
    /\ sdAccepted < MaxAccepted
    /\ sdInflight' = sdInflight + 1
    /\ sdAccepted' = sdAccepted + 1
    /\ UNCHANGED <<sdPc, sdListener, sdIdleUpstream, sdExpired, sdSession, sdReads,
                   sdReadsAfter, sdLog>>
    /\ ShutdownFrame

\* A handler returns; the transport keeps its upstream connection idle for
\* reuse, or the connection is gone.
SdHandlerFinishes ==
    /\ sdInflight > 0
    /\ sdInflight' = sdInflight - 1
    /\ \E keptAlive \in BOOLEAN :
         sdIdleUpstream' = IF keptAlive THEN sdIdleUpstream + 1 ELSE sdIdleUpstream
    /\ UNCHANGED <<sdPc, sdListener, sdAccepted, sdExpired, sdSession, sdReads,
                   sdReadsAfter, sdLog>>
    /\ ShutdownFrame

\* A CONNECT is hijacked and handed to handleMitmTLS, which starts to read
\* the first request (filters.go line 197).
SdSessionStarts ==
    /\ sdListener
    /\ sdSession = "none"
    /\ sdAccepted < MaxAccepted
    /\ sdAccepted' = sdAccepted + 1
    /\ sdSession' = "reading"
    /\ UNCHANGED <<sdPc, sdListener, sdInflight, sdIdleUpstream, sdExpired, sdReads,
                   sdReadsAfter, sdLog>>
    /\ ShutdownFrame

\* http.ReadRequest returns a request and processMitmRequest starts on it.
SdSessionReads ==
    /\ sdSession = "reading"
    /\ sdReads < MaxSessionReads
    /\ sdReads' = sdReads + 1
    /\ sdSession' = "processing"
    /\ UNCHANGED <<sdPc, sdListener, sdInflight, sdAccepted, sdIdleUpstream, sdExpired,
                   sdReadsAfter, sdLog>>
    /\ ShutdownFrame

\* processMitmRequest returns nil and the loop of handleMitmTLS (lines
\* 196-210) calls http.ReadRequest again: a new read starts.
SdSessionLoops ==
    /\ sdSession = "processing"
    /\ sdSession' = "reading"
    /\ sdReadsAfter' = IF ShutdownSignalled THEN sdReadsAfter + 1 ELSE sdReadsAfter
    /\ UNCHANGED <<sdPc, sdListener, sdInflight, sdAccepted, sdIdleUpstream, sdExpired,
                   sdReads, sdLog>>
    /\ ShutdownFrame

\* The session ends: end of stream or a read error, or an error of
\* processMitmRequest.
SdSessionEnds ==
    /\ sdSession \in {"reading", "processing"}
    /\ sdSession' = "none"
    /\ UNCHANGED <<sdPc, sdListener, sdInflight, sdAccepted, sdIdleUpstream, sdExpired,
                   sdReads, sdReadsAfter, sdLog>>
    /\ ShutdownFrame

\* Server.Shutdown, lines 85-87: s.transport.CloseIdleConnections().
SdCloseIdle ==
    /\ sdPc = "serving"
    /\ sdIdleUpstream' = 0
    /\ sdLog' = Append(sdLog, "close_idle_upstream")
    /\ sdPc' = "close_listener"
    /\ UNCHANGED <<sdListener, sdInflight, sdAccepted, sdExpired, sdSession, sdReads,
                   sdReadsAfter>>
    /\ ShutdownFrame

\* Server.Shutdown, line 89: httpServer.Shutdown(ctx) closes the listener.
SdCloseListener ==
    /\ sdPc = "close_listener"
    /\ sdListener' = FALSE
    /\ sdLog' = Append(sdLog, "close_listener")
    /\ sdPc' = "waiting"
    /\ UNCHANGED <<sdInflight, sdAccepted, sdIdleUpstream, sdExpired, sdSession,
                   sdReads, sdReadsAfter>>
    /\ ShutdownFrame

\* The caller's deadline passes (ctx.Done()).
SdDeadline ==
    /\ sdPc = "waiting"
    /\ ~sdExpired
    /\ sdExpired' = TRUE
    /\ UNCHANGED <<sdPc, sdListener, sdInflight, sdAccepted, sdIdleUpstream, sdSession,
                   sdReads, sdReadsAfter, sdLog>>
    /\ ShutdownFrame

\* httpServer.Shutdown(ctx) returns: no handler is in flight, or ctx is
\* done.  Hijacked connections are not waited for.
SdWaitEnds ==
    /\ sdPc = "waiting"
    /\ sdInflight = 0 \/ sdExpired
    /\ sdLog' = Append(sdLog, "wait")
    /\ sdPc' = "done"
    /\ UNCHANGED <<sdListener, sdInflight, sdAccepted, sdIdleUpstream, sdExpired,
                   sdSession, sdReads, sdReadsAfter>>
    /\ ShutdownFrame

NextShutdown ==
    \/ SdAccept
    \/ SdHandlerFinishes
    \/ SdSessionStarts
    \/ SdSessionReads
    \/ SdSessionLoops
    \/ SdSessionEnds
    \/ SdCloseIdle
    \/ SdCloseListener
    \/ SdDeadline
    \/ SdWaitEnds

InitSpecShutdown ==
    InitShutdown /\ AllowedIdle /\ TeeIdle /\ LeafIdle /\ HandlersIdle /\ TunnelIdle
    /\ ExcerptIdle /\ HeaderBlockIdle
    /\ SanitiseIdle
    /\ RegistryIdle
    /\ BufferIdle
    /\ StreamIdle
    /\ CloneIdle
    /\ SessionIdle

SpecShutdown == InitSpecShutdown /\ [][NextShutdown]_vars

\* C18: graceful Shutdown closes the listener, then waits up to the caller's
\* deadline for in-flight handlers, then closes idle upstream connections,
\* so that upstream connections left idle by handlers that finished during
\* the wait are closed.
C18_ShutdownOrder ==
    sdPc = "done" =>
        /\ sdLog = <<"close_listener", "wait", "close_idle_upstream">>
        /\ sdInflight = 0 => sdIdleUpstream = 0

\* C19: after shutdown has been signalled an active MITM session may finish
\* the request it is processing but starts no new read of a further request
\* from the decrypted stream.
C19_NoReadAfterShutdown == sdReadsAfter = 0

(***************************************************************************)
(* BlockHeaderFilter.ApplyRequest as a function of the filter's values and *)
(* the values the request carries for the filter's header                  *)
(***************************************************************************)

\* Most values a request carries for the header.
MaxHeaderValues == 2

\* Most values a filter denies.
MaxDenied == 2

\* Values of the header in a request (the empty string among them) and
\* values a filter denies.
HeaderStrings == {<<>>, <<"a">>, <<"A">>, <<"b">>}

DeniedStrings == {<<"a">>, <<"A">>, <<"b">>}

InitHeaderBlock ==
    /\ hbValues \in SeqsUpTo(DeniedStrings, MaxDenied)
    /\ hbHeader \in SeqsUpTo(HeaderStrings, MaxHeaderValues)
    /\ hbDone = FALSE
    /\ hbResult = NoErr

\* f.ApplyRequest(r) for f = BlockHeaderFilter{Header, Values: hbValues} and
\* a request r carrying the values hbHeader for Header.
HeaderBlockCall ==
    /\ ~hbDone
    /\ hbDone' = TRUE
    /\ hbResult' = FilterApplyRequest(BlockHeaderFilter(hbValues),
                                      [header |-> hbHeader, path |-> <<>>])
    /\ UNCHANGED <<hbValues, hbHeader>>
    /\ HeaderBlockFrame

NextHeaderBlock == HeaderBlockCall

InitSpecHeaderBlock ==
    InitHeaderBlock /\ AllowedIdle /\ TeeIdle /\ LeafIdle /\ HandlersIdle /\ TunnelIdle
    /\ ExcerptIdle /\ ShutdownIdle
    /\ SanitiseIdle
    /\ RegistryIdle
    /\ BufferIdle
    /\ StreamIdle
    /\ CloneIdle
    /\ SessionIdle

SpecHeaderBlock == InitSpecHeaderBlock /\ [][NextHeaderBlock]_vars

\* C20: a header-block filter rejects a request whenever the request carries
\* the configured header with any value (among possibly several values of
\* that header) equal case-insensitively to one of the filter's values, and
\* accepts it otherwise.
C20_HeaderBlockAnyValue ==
    hbDone =>
        (hbResult # NoErr <=>
            \E i \in 1..Len(hbHeader), j \in 1..Len(hbValues) :
                Fold(hbHeader[i]) = Fold(hbValues[j]))

(***************************************************************************)
(* SanitiseHeaders                                                         *)
(*                                                                         *)
(* The output for one header of the map: the values joined with ", ", each *)
(* masked first when the lowercased name is a sensitive one.  The second   *)
(* step feeds the output back in as the header's single value.             *)
(***************************************************************************)

\* Longest single header value explored.
MaxValueLen == 7

\* Most values of one header explored.
MaxValues == 3

\* Characters of header values: two letters, the space and the star.
ValueChars == {"a", "b", " ", "*"}

\* sensitiveHeaders: "ab" stands for the names of the set, all lower case.
sensitiveHeaders == {<<"a", "b">>}

\* Header names as requests spell them: a sensitive one in two spellings
\* and one that is not sensitive.
HeaderNames == {<<"a", "b">>, <<"A", "b">>, <<"b">>}

Stars == <<"*", "*", "*">>

\* strings.TrimSpace
RECURSIVE TrimSpace(_)
TrimSpace(v) ==
    IF v = <<>> THEN v
    ELSE IF Head(v) = " " THEN TrimSpace(Tail(v))
    ELSE IF v[Len(v)] = " " THEN TrimSpace(SubSeq(v, 1, Len(v) - 1))
    ELSE v

\* strings.Index(v, " ") counted from 1 (0 when there is no space).
IndexSpace(v) ==
    IF \E i \in 1..Len(v) : v[i] = " "
    THEN CHOOSE i \in 1..Len(v) : v[i] = " " /\ \A j \in 1..(i-1) : v[j] # " "
    ELSE 0

\* maskCore
maskCore(v) ==
    IF Len(v) <= 4 THEN Stars
    ELSE SubSeq(v, 1, 2) \o Stars \o SubSeq(v, Len(v) - 1, Len(v))

\* maskToken: strings.SplitN(v, " ", 2) cuts at the first space.
maskToken(raw) ==
    LET v == TrimSpace(raw)
        i == IndexSpace(v)
    IN  IF v = <<>> THEN <<>>
        ELSE IF i # 0
        THEN SubSeq(v, 1, i - 1) \o <<" ">> \o maskCore(SubSeq(v, i + 1, Len(v)))
        ELSE maskCore(v)

\* strings.Join(values, ", ")
RECURSIVE JoinComma(_)
JoinComma(values) ==
    IF values = <<>> THEN <<>>
    ELSE IF Len(values) = 1 THEN values[1]
    ELSE values[1] \o <<",", " ">> \o JoinComma(Tail(values))

\* redactValues
redactValues(values) ==
    IF Len(values) = 0 THEN <<>>
    ELSE JoinComma([i \in 1..Len(values) |-> maskToken(values[i])])

\* SanitiseHeaders: out[k] for the header k with the values vv.
SanitiseHeader(k, vv) ==
    IF ToLower(k) \in sensitiveHeaders THEN redactValues(vv)
    ELSE JoinComma(vv)

\* The values of the headers explored: every single value up to MaxValueLen,
\* and up to MaxValues values among an empty one, a short one, a long one
\* and one with a scheme.
ListedValues ==
    {<<>>, <<"a", "b">>, <<"a", "b", "a", "b", "a">>, <<"a", " ", "b", "a", "b", "a", "b">>}

SanitiseInputs ==
    {<<v>> : v \in SeqsUpTo(ValueChars, MaxValueLen)}
    \cup SeqsUpTo(ListedValues, MaxValues)

InitSanitise ==
    /\ snName \in HeaderNames
    /\ snValues \in SanitiseInputs
    /\ snPc = "raw"
    /\ snOut = <<>>
    /\ snAgain = <<>>

\* SanitiseHeaders(h)
SanitiseOnce ==
    /\ snPc = "raw"
    /\ snOut' = SanitiseHeader(snName, snValues)
    /\ snPc' = "once"
    /\ UNCHANGED <<snName, snValues, snAgain>>
    /\ SanitiseFrame

\* SanitiseHeaders of the output, taken as a single-valued header.
SanitiseAgain ==
    /\ snPc = "once"
    /\ snAgain' = SanitiseHeader(snName, <<snOut>>)
    /\ snPc' = "twice"
    /\ UNCHANGED <<snName, snValues, snOut>>
    /\ SanitiseFrame

NextSanitise == SanitiseOnce \/ SanitiseAgain

InitSpecSanitise ==
    InitSanitise /\ AllowedIdle /\ TeeIdle /\ LeafIdle /\ HandlersIdle
    /\ TunnelIdle /\ ExcerptIdle /\ ShutdownIdle /\ HeaderBlockIdle
    /\ RegistryIdle
    /\ BufferIdle
    /\ StreamIdle
    /\ CloneIdle
    /\ SessionIdle

SpecSanitise == InitSpecSanitise /\ [][NextSanitise]_vars

\* The header name is in the sensitive set, whatever its letter case.
Sensitive(k) == Fold(k) \in {Fold(n) : n \in sensitiveHeaders}

\* The token portion of a raw value: what follows the scheme and its space
\* when there is one, the whole value otherwise.
TokenPortion(raw) ==
    LET v == TrimSpace(raw)
        i == IndexSpace(v)
    IN  IF i # 0 THEN SubSeq(v, i + 1, Len(v)) ELSE v

\* C21: for every header whose name is in the sensitive set (matched
\* case-insensitively) and every raw value, SanitiseHeaders outputs a value
\* different from the raw value; when the raw value has at least 5
\* characters the masked form keeps exactly the first two and last two
\* characters of the token portion with *** between them.
C21_SensitiveMasked ==
    snPc # "raw" /\ Sensitive(snName) /\ Len(snValues) = 1 =>
        LET raw == snValues[1]
            t == TokenPortion(raw)
            kept == SubSeq(t, 1, 2) \o Stars \o SubSeq(t, Len(t) - 1, Len(t))
        IN  /\ snOut # raw
            /\ Len(raw) >= 5 =>
                  /\ Len(t) >= 2
                  /\ Len(snOut) >= Len(kept)
                  /\ SubSeq(snOut, Len(snOut) - Len(kept) + 1, Len(snOut)) = kept

\* C22: header sanitization is idempotent: for every header map (sensitive
\* or not, single- or multi-valued), feeding the output back in as
\* single-valued headers yields exactly the output.
C22_SanitiseIdempotent == snPc = "twice" => snAgain = snOut

(***************************************************************************)
(* Profile registry                                                        *)
(*                                                                         *)
(* FromNames builds the ordered list of profiles from the configured       *)
(* names; Match walks it and returns the first profile whose Match accepts *)
(* the request.  A profile is identified by its position in the list, 0    *)
(* standing for nil.                                                       *)
(***************************************************************************)

\* Most configured profile names explored.
MaxProfiles == 3

\* Longest host of a matched request explored.
MaxMatchHost == 2

\* defaultFactories, and a name that has no factory.
KnownProfiles == {"generic", "openai"}

ProfileNames == KnownProfiles \cup {"other"}

\* The substring the openai profile looks for: "o" stands for "openai".
OpenAINeedle == <<"o">>

\* strings.Contains
Contains(s, sub) ==
    \E i \in 0..(Len(s) - Len(sub)) : SubSeq(s, i + 1, i + Len(sub)) = sub

MatchHosts == SeqsUpTo({"o", "a"}, MaxMatchHost)

\* Requests handed to Match: nil, one without URL, and those with a URL
\* host and a Host field.
NilRequest == [nil |-> TRUE, url |-> FALSE, urlHost |-> <<>>, host |-> <<>>]

RegistryRequests ==
    {NilRequest}
    \cup [nil : {FALSE}, url : {FALSE}, urlHost : {<<>>}, host : MatchHosts]
    \cup [nil : {FALSE}, url : {TRUE}, urlHost : MatchHosts, host : MatchHosts]

\* generic.Profile.Match
genericMatch(r) == TRUE

\* openai.Profile.Match
openaiMatch(r) ==
    IF r.nil \/ ~r.url THEN FALSE
    ELSE LET host == IF r.urlHost = <<>> THEN r.host ELSE r.urlHost
         IN  Contains(host, OpenAINeedle)

\* Profile.Match of the profile with the given name.
ProfileMatch(name, r) ==
    IF name = "generic" THEN genericMatch(r) ELSE openaiMatch(r)

\* FromNames: the ordered profiles, or an error for an unknown name.
FromNames(names) ==
    LET ns == IF Len(names) = 0 THEN <<"generic">> ELSE names
    IN  IF \E i \in 1..Len(ns) : ns[i] \notin KnownProfiles
        THEN [err |-> TRUE, ordered |-> <<>>]
        ELSE [err |-> FALSE, ordered |-> ns]

RegistryMatch_last(ordered, r) ==
    IF \E i \in 1..Len(ordered) : ProfileMatch(ordered[i], r)
    THEN CHOOSE i \in 1..Len(ordered) :
            /\ ProfileMatch(ordered[i], r)
            /\ \A j \in (i+1)..Len(ordered) : ~ProfileMatch(ordered[j], r)
    ELSE 0

\* Registry.Match: the loop returns at the first accepting profile.
RECURSIVE RegistryMatchFrom(_, _, _)
RegistryMatchFrom(ordered, r, i) ==
    IF i > Len(ordered) THEN 0
    ELSE IF ProfileMatch(ordered[i], r) THEN i
    ELSE RegistryMatchFrom(ordered, r, i + 1)

RegistryMatch(ordered, r) == RegistryMatchFrom(ordered, r, 1)

InitRegistry ==
    /\ rgNames \in SeqsUpTo(ProfileNames, MaxProfiles)
    /\ rgOrdered = <<>>
    /\ rgPc = "new"
    /\ rgReq = NilRequest
    /\ rgResult = 0

\* NewServer: profiles.FromNames(cfg.Profiles, cfg.ProfilesConfig)
RegistryBuild ==
    /\ rgPc = "new"
    /\ LET made == FromNames(rgNames)
       IN  /\ rgOrdered' = made.ordered
           /\ rgPc' = IF made.err THEN "failed" ELSE "ready"
    /\ UNCHANGED <<rgNames, rgReq, rgResult>>
    /\ RegistryFrame

\* h.profiles.Match(outbound)
RegistryMatchCall ==
    /\ rgPc \in {"ready", "matched"}
    /\ \E r \in RegistryRequests :
          /\ rgReq' = r
          /\ rgResult' = RegistryMatch(rgOrdered, r)
    /\ rgPc' = "matched"
    /\ UNCHANGED <<rgNames, rgOrdered>>
    /\ RegistryFrame

NextRegistry == RegistryBuild \/ RegistryMatchCall

InitSpecRegistry ==
    InitRegistry /\ AllowedIdle /\ TeeIdle /\ LeafIdle /\ HandlersIdle
    /\ TunnelIdle /\ ExcerptIdle /\ ShutdownIdle /\ HeaderBlockIdle /\ SanitiseIdle
    /\ BufferIdle
    /\ StreamIdle
    /\ CloneIdle
    /\ SessionIdle

SpecRegistry == InitSpecRegistry /\ [][NextRegistry]_vars

\* Positions of the registry whose profile accepts the request.
Accepting == {i \in 1..Len(rgOrdered) : ProfileMatch(rgOrdered[i], rgReq)}

GenericAt == {i \in 1..Len(rgOrdered) : rgOrdered[i] = "generic"}

\* C23: Registry.Match returns the first profile, in configured order, whose
\* Match accepts the request, and nil only when none accepts; a registry
\* containing generic always returns a profile, and a profile listed after
\* generic is never returned.
C23_FirstAcceptingProfile ==
    rgPc = "matched" =>
        /\ rgResult = 0 <=> Accepting = {}
        /\ rgResult # 0 =>
              /\ rgResult \in Accepting
              /\ \A j \in Accepting : rgResult <= j
        /\ GenericAt # {} =>
              /\ rgResult # 0
              /\ \A g \in GenericAt : rgResult <= g

\* A request all three profiles accept, matched by a registry that lists
\* openai both before and after generic: the first one is returned.
C23_Witness ==
    /\ rgPc = "matched"
    /\ rgOrdered = <<"openai", "generic", "openai">>
    /\ rgResult = 1
    /\ Accepting = {1, 2, 3}

(***************************************************************************)
(* LimitedBuffer under Write and Reset                                     *)
(*                                                                         *)
(* One buffer, constructed with a limit the configuration allows (config   *)
(* validation rejects a negative excerpt limit), then written and reset in *)
(* any order.  lbSince is every byte passed to Write since the last Reset  *)
(* and lbRet what the last Write returned.                                 *)
(***************************************************************************)

\* Calls made on the buffer after its construction.
MaxBufferOps == 3

\* Most bytes passed to one Write.
MaxWriteLen == 2

NoWrite == [n |-> 0, err |-> "nil", asked |-> 0]

InitBuffer ==
    /\ \E limit \in 0..MaxLimit : lbBuf = NewLimitedBuffer(limit)
    /\ lbSince = <<>>
    /\ lbRet = NoWrite
    /\ lbOps = <<>>

\* b.Write(p)
BufferWrite ==
    /\ Len(lbOps) < MaxBufferOps
    /\ \E p \in SeqsUpTo(Bytes, MaxWriteLen) :
          LET w == LimitedBufferWrite(lbBuf, p)
          IN  /\ lbBuf' = w.b
              /\ lbSince' = lbSince \o p
              /\ lbRet' = [n |-> w.n, err |-> w.err, asked |-> Len(p)]
    /\ lbOps' = Append(lbOps, "write")
    /\ BufferFrame

\* b.Reset(limit)
BufferReset ==
    /\ Len(lbOps) < MaxBufferOps
    /\ \E limit \in 0..MaxLimit : lbBuf' = LimitedBufferReset(lbBuf, limit)
    /\ lbSince' = <<>>
    /\ lbOps' = Append(lbOps, "reset")
    /\ UNCHANGED lbRet
    /\ BufferFrame

NextBuffer == BufferWrite \/ BufferReset

InitSpecBuffer ==
    InitBuffer /\ AllowedIdle /\ TeeIdle /\ LeafIdle /\ HandlersIdle
    /\ TunnelIdle /\ ExcerptIdle /\ ShutdownIdle /\ HeaderBlockIdle /\ SanitiseIdle
    /\ RegistryIdle
    /\ StreamIdle
    /\ CloneIdle
    /\ SessionIdle

SpecBuffer == InitSpecBuffer /\ [][NextBuffer]_vars

\* C29: after any sequence of Write and Reset calls Len() never exceeds the
\* current limit, the contents are the first min(total, limit) bytes written
\* since the last Reset, and every Write returned len(p) and a nil error,
\* the buffer full or the limit 0 included.
C29_BufferAfterWritesAndResets ==
    /\ Len(lbBuf.buf) <= lbBuf.limit
    /\ lbBuf.buf = SubSeq(lbSince, 1, Min(Len(lbSince), lbBuf.limit))
    /\ lbRet.n = lbRet.asked
    /\ lbRet.err = "nil"

\* After a Reset to limit 1, a Write of two bytes filled the buffer and a
\* further Write of two bytes was made on the full buffer.
C29_Witness ==
    /\ lbOps = <<"reset", "write", "write">>
    /\ lbBuf.limit = 1
    /\ Len(lbBuf.buf) = 1
    /\ Len(lbSince) = 4
    /\ lbRet.asked = 2 /\ lbRet.n = 2

(***************************************************************************)
(* Termination of a raw tunnel (SpecTunnelFair)                            *)
(***************************************************************************)

\* C30: once either the client or the upstream side of a raw tunnel closes
\* its connection, tunnelConnections eventually returns and handleConnect
\* emits the tunnel's record, even if the other side stays open and sends
\* nothing further.
C30_TunnelEndsAfterOneClose ==
    (\E side \in Sides : tnPeer[side] = "closed") ~> (tnPc = "recorded")

\* Once both sides have closed their connections the tunnel returns and its
\* record is emitted.
TunnelEndsAfterBothClose ==
    (\A side \in Sides : tnPeer[side] = "closed") ~> (tnPc = "recorded")

(***************************************************************************)
(* The requests of one MITM session                                        *)
(***************************************************************************)

\* The session of goroutine p reads its next request in this step.
MitmReadsNext(p) == pc[p] = "mitm_read" /\ pc'[p] = "mitm_process"

\* The session of goroutine p ends in this step at http.ReadRequest.
MitmEndsAtRead(p) == pc[p] = "mitm_read" /\ pc'[p] = "idle"

\* The response to the request observed as o is out completely: a status
\* line went to the client and the write of its body returned nil.
ResponseWritten(o) ==
    /\ o.outcome \in {"mitm_ok", "mitm_req_rejected", "mitm_upstream_error",
                      "mitm_resp_rejected"}
    /\ o.status # <<>>
    /\ o.upstreamBody \in {"none", "complete"}

\* C31: within one MITM session requests are handled one after the other:
\* when a request is read from the decrypted stream, the response to the
\* request before it has been written completely; a session that ends at
\* the read ends either without an error and without a record (end of
\* stream at a request boundary) or with the error "read mitm request"
\* recorded under the CONNECT's identifier.
C31_MitmSessionSequential ==
    [][\A p \in Handlers :
          /\ MitmReadsNext(p) =>
                obs[p].inner = ObsNone \/ ResponseWritten(obs[p].inner)
          /\ MitmEndsAtRead(p) =>
                LET o == obs'[p].req
                IN  \/ /\ o.outcome = "mitm_clean"
                       /\ logged' = logged
                       /\ o.entries = obs[p].req.entries
                    \/ /\ o.outcome = "mitm_error"
                       /\ logged'[o.id] = logged[o.id] + 1
                       /\ o.entries = obs[p].req.entries \cup
                             {logErrorEntry(o.id, o.target, "mitm",
                                            Err("read mitm request", <<>>))}]_vars

\* A session answered two requests, the second read after the first was
\* written, and then ended with a read failure that was recorded.
C31_Witness ==
    \E p \in Handlers :
        /\ obs[p].req.outcome = "mitm_error"
        /\ obs[p].inner.id = obs[p].req.id + 2
        /\ ResponseWritten(obs[p].inner)
        /\ \E e \in obs[p].req.entries : e.error = Err("read mitm request", <<>>)
        /\ logged[obs[p].req.id] = 1

\* C32: each request read from the decrypted stream of a MITM session
\* yields exactly one audit record carrying that request's own identifier,
\* on every way processMitmRequest ends: success, request-filter rejection
\* (403), round-trip failure or response-filter rejection (502), and a
\* failed write of the response to the client.
C32_MitmRequestExactlyOneRecord ==
    \A p \in Handlers :
        LET o == obs[p].inner
        IN  o.kind = "mitm" /\ Finished(o) =>
               /\ o.emitted = 1
               /\ logged[o.id] = 1
               /\ \A e \in o.entries : e.id = o.id

\* C34: every success record of handleHTTP carries a mitm attribute:
\* "enabled" when MITM is on and the target host is not on the disable
\* list, "skipped" when MITM is on and the host is on the list, "disabled"
\* when MITM is off.  The record of a raw CONNECT tunnel says "planned"
\* when MITM is on (the host is then on the disable list) and "disabled"
\* when it is off; "skipped" never appears on a tunnel's record and
\* "planned" never on a handleHTTP record.
C34_MitmAttributeByPath ==
    \A p \in Handlers :
        LET o == obs[p].req
        IN  /\ o.kind = "http" /\ o.outcome = "streamed" =>
                  /\ o.entries # {}
                  /\ \A e \in o.entries :
                        e.mitm = IF ~cfg.enableMITM THEN "disabled"
                                 ELSE IF OnDisableList(o.target) THEN "skipped"
                                 ELSE "enabled"
            /\ o.kind = "connect" /\ o.outcome = "tunnel_done" =>
                  /\ o.entries # {}
                  /\ cfg.enableMITM => OnDisableList(o.target)
                  /\ \A e \in o.entries :
                        e.mitm = IF cfg.enableMITM THEN "planned" ELSE "disabled"

\* With MITM on, a plain request and a CONNECT to the same host of the
\* disable list were both served: the first record says skipped, the second
\* planned.
C34_Witness ==
    \E p, q \in Handlers :
        /\ cfg.enableMITM
        /\ obs[p].req.kind = "http" /\ obs[p].req.outcome = "streamed"
        /\ obs[q].req.kind = "connect" /\ obs[q].req.outcome = "tunnel_done"
        /\ obs[p].req.target = <<"b", ":", "1">>
        /\ obs[q].req.target = <<"b", ":", "1">>
        /\ \E e \in obs[p].req.entries : e.mitm = "skipped"
        /\ \E e \in obs[q].req.entries : e.mitm = "planned"

(***************************************************************************)
(* The response body on its way to the client, and the response summary    *)
(* of the record                                                           *)
(*                                                                         *)
(* One request whose round trip succeeded and whose response passed the    *)
(* filters: handleHTTP from line 156, processMitmRequest from line 260.    *)
(* The body is copied a byte at a time through the tee; the copy can fail  *)
(* at any byte.  The request buffer is already held when the excerpt limit *)
(* is positive.                                                            *)
(***************************************************************************)

\* Longest upstream body.
MaxStreamBody == 3

\* Largest excerpt limit.
MaxStreamLimit == 2

\* resp.ContentLength when the upstream did not declare a length.
UnknownLength == 0 - 1

StreamPaths == {"http", "mitm"}

\* The body bytes of length n.
BodyOf(n) == [i \in 1..n |-> "x"]

\* A nil *audit.LimitedBuffer.
NilBuffer == [nil |-> TRUE, buf |-> <<>>, limit |-> 0]

InitStream ==
    /\ rsPath \in StreamPaths
    /\ rsLimit \in 0..MaxStreamLimit
    /\ \E n \in 0..MaxStreamBody :
         /\ rsBody = BodyOf(n)
         /\ rsDeclared \in {UnknownLength, n}
    /\ rsSent = 0
    /\ rsBuf = NilBuffer
    /\ rsHeld = IF rsLimit > 0 THEN {"request"} ELSE {}
    /\ rsReleased = <<>>
    /\ rsPc = "tee"
    /\ rsCopyErr = ""
    /\ rsEntries = <<>>

newHTTPResponse_declaredOnly(contentLength, bodyBytes) ==
    [status |-> 200, content_length |-> contentLength]

\* newHTTPResponse(resp, bodyBytes) for a non-nil resp
newHTTPResponse(contentLength, bodyBytes) ==
    [status |-> 200,
     content_length |-> IF contentLength < 0 THEN bodyBytes ELSE contentLength]

\* The deferred closure of both handlers: releaseBuffer on the request and
\* the response buffer, each skipped when nil.
StreamRelease ==
    /\ rsHeld' = {}
    /\ rsReleased' = rsReleased
                     \o (IF "request" \in rsHeld THEN <<"request">> ELSE <<>>)
                     \o (IF "response" \in rsHeld THEN <<"response">> ELSE <<>>)

\* handleHTTP 156-159, processMitmRequest 260-263: with a positive limit
\* the response body is wrapped in a tee over a fresh buffer.
StreamTee ==
    /\ rsPc = "tee"
    /\ IF rsLimit > 0
       THEN /\ rsBuf' = [nil |-> FALSE, buf |-> <<>>, limit |-> rsLimit]
            /\ rsHeld' = rsHeld \cup {"response"}
       ELSE UNCHANGED <<rsBuf, rsHeld>>
    /\ rsPc' = "copy"
    /\ UNCHANGED <<rsPath, rsLimit, rsDeclared, rsBody, rsSent, rsReleased,
                   rsCopyErr, rsEntries>>
    /\ StreamFrame

\* The buffer after the tee has seen the bytes p.
TeeSees(b, p) ==
    IF b.nil THEN b
    ELSE LET w == LimitedBufferWrite([buf |-> b.buf, limit |-> b.limit], p)
         IN  [nil |-> FALSE, buf |-> w.b.buf, limit |-> w.b.limit]

\* io.Copy (copyStream, resp.Write): one byte is read from the upstream
\* body through the tee and written to the client, or the write fails.
StreamCopy ==
    /\ rsPc = "copy"
    /\ rsBody # <<>>
    /\ rsBuf' = TeeSees(rsBuf, <<Head(rsBody)>>)
    /\ rsBody' = Tail(rsBody)
    /\ \E ok \in BOOLEAN :
         IF ok
         THEN /\ rsSent' = rsSent + 1
              /\ UNCHANGED <<rsPc, rsCopyErr>>
         ELSE /\ rsCopyErr' = "write failed"
              /\ rsPc' = "copied"
              /\ UNCHANGED rsSent
    /\ UNCHANGED <<rsPath, rsLimit, rsDeclared, rsHeld, rsReleased, rsEntries>>
    /\ StreamFrame

\* The upstream body ends (io.EOF: the copy returns nil) or reading it
\* fails.
StreamCopyEnds ==
    /\ rsPc = "copy"
    /\ \/ rsBody = <<>> /\ rsCopyErr' = "nil"
       \/ rsBody # <<>> /\ rsCopyErr' = "read failed"
    /\ rsPc' = "copied"
    /\ UNCHANGED <<rsPath, rsLimit, rsDeclared, rsBody, rsSent, rsBuf, rsHeld,
                   rsReleased, rsEntries>>
    /\ StreamFrame

\* The entry of a streamed response: its response summary, its error and
\* the response excerpt attribute ("" when absent).
StreamEntry(bodyBytes) ==
    [response |-> newHTTPResponse(rsDeclared, bodyBytes),
     error |-> "",
     excerpt |-> IF rsBuf.nil THEN <<>> ELSE rsBuf.buf]

\* handleHTTP 175-217: the copy error is only logged; the entry is built
\* with bytesCopied and recorded, and the handler returns.
StreamRecordHttp ==
    /\ rsPc = "copied"
    /\ rsPath = "http"
    /\ rsEntries' = Append(rsEntries, StreamEntry(rsSent))
    /\ StreamRelease
    /\ rsPc' = "done"
    /\ UNCHANGED <<rsPath, rsLimit, rsDeclared, rsBody, rsSent, rsBuf, rsCopyErr>>
    /\ StreamFrame

\* processMitmRequest 269-272: bodyLen
mitmBodyLen(contentLength, responseBuf) ==
    IF contentLength < 0 /\ ~responseBuf.nil THEN Len(responseBuf.buf)
    ELSE contentLength

\* processMitmRequest 265-307: a failed resp.Write returns its error; else
\* the entry is built with bodyLen and recorded.
StreamRecordMitm ==
    /\ rsPc = "copied"
    /\ rsPath = "mitm"
    /\ IF rsCopyErr # "nil"
       THEN UNCHANGED rsEntries
       ELSE rsEntries' = Append(rsEntries,
                                StreamEntry(mitmBodyLen(rsDeclared, rsBuf)))
    /\ StreamRelease
    /\ rsPc' = "done"
    /\ UNCHANGED <<rsPath, rsLimit, rsDeclared, rsBody, rsSent, rsBuf, rsCopyErr>>
    /\ StreamFrame

NextStream ==
    \/ StreamTee
    \/ StreamCopy
    \/ StreamCopyEnds
    \/ StreamRecordHttp
    \/ StreamRecordMitm

InitSpecStream ==
    InitStream /\ AllowedIdle /\ TeeIdle /\ LeafIdle /\ HandlersIdle
    /\ TunnelIdle /\ ExcerptIdle /\ ShutdownIdle /\ HeaderBlockIdle
    /\ SanitiseIdle /\ RegistryIdle /\ BufferIdle
    /\ CloneIdle
    /\ SessionIdle

SpecStream == InitSpecStream /\ [][NextStream]_vars

\* C33: when the upstream response's Content-Length is unknown (negative),
\* the response.content_length of the record equals the number of body
\* bytes streamed to the client, on the plain HTTP path and on the MITM
\* path, for every body length and every excerpt limit.
C33_UnknownLengthIsBytesStreamed ==
    rsPc = "done" /\ rsDeclared < 0 =>
        \A i \in DOMAIN rsEntries :
            rsEntries[i].response.content_length = rsSent

\* C35: when streaming the response body to the client fails part-way on
\* the plain HTTP path, the handler still emits exactly one record, with
\* the response summary (status; the declared length, or the bytes copied
\* so far when the length was unknown) and no error, and releases each of
\* its buffers once.
C35_FailedCopyStillRecorded ==
    rsPc = "done" /\ rsPath = "http" /\ rsCopyErr # "nil" =>
        /\ Len(rsEntries) = 1
        /\ rsEntries[1].response.status = 200
        /\ rsEntries[1].response.content_length =
              IF rsDeclared < 0 THEN rsSent ELSE rsDeclared
        /\ rsEntries[1].error = ""
        /\ rsHeld = {}
        /\ rsReleased = IF rsLimit > 0 THEN <<"request", "response">> ELSE <<>>

\* A copy with a tee failed at the third byte of a body of unknown length:
\* the record reports two bytes and both buffers went back.
C35_Witness ==
    /\ rsPc = "done" /\ rsPath = "http" /\ rsCopyErr = "write failed"
    /\ rsDeclared < 0 /\ rsSent = 2 /\ rsBody = <<>>
    /\ Len(rsEntries) = 1 /\ rsEntries[1].response.content_length = 2
    /\ rsReleased = <<"request", "response">>

(***************************************************************************)
(* cloneRequest                                                            *)
(*                                                                         *)
(* Requests point to their URL and their header map; cqUrls and cqHeaders  *)
(* are the objects allocated so far, an address is an index.  Whether the  *)
(* inbound request survives the call depends on which objects the          *)
(* outbound request shares with it.                                        *)
(***************************************************************************)

\* Header names a request may carry (canonical MIME form, as the server's
\* parser stores them).
CloneHeaderNames ==
    {"Proxy-Connection", "Proxy-Authenticate", "Proxy-Authorization", "Accept"}

\* The names cloneRequest deletes.
ProxyHeaderNames ==
    {"Proxy-Connection", "Proxy-Authenticate", "Proxy-Authorization"}

CloneSchemes == {"", "http", "https"}

CloneHosts == {"", "u.test"}

CloneHostFields == {"", "h.test"}

CloneRequestURIs == {"", "/p"}

\* The values stored under a header name.
HeaderValuesOf(k) == IF k = "Accept" THEN <<"a", "b">> ELSE <<"v">>

InitClone ==
    /\ \E scheme \in CloneSchemes, host \in CloneHosts, nilURL \in BOOLEAN :
         /\ cqUrls = << [scheme |-> scheme, host |-> host] >>
         /\ \E hf \in CloneHostFields, uri \in CloneRequestURIs :
              cqIn = [url |-> IF nilURL THEN 0 ELSE 1, header |-> 1,
                      host |-> hf, requestURI |-> uri]
    /\ \E K \in SUBSET CloneHeaderNames :
         cqHeaders = << [k \in K |-> HeaderValuesOf(k)] >>
    /\ cqOut = [req |-> NoRequest, target |-> "", err |-> ""]
    /\ cqPc = "start"

RequestClone_shallow(urls, hdrs, r) ==
    [urls |-> urls, hdrs |-> hdrs, req |-> r]

\* (*http.Request).Clone: a new Request with its own copy of the URL and of
\* the header map.
RequestClone(urls, hdrs, r) ==
    [urls |-> Append(urls, urls[r.url]),
     hdrs |-> Append(hdrs, hdrs[r.header]),
     req |-> [r EXCEPT !.url = Len(urls) + 1, !.header = Len(hdrs) + 1]]

\* http.Header.Del
HeaderDel(h, key) == [k \in DOMAIN h \ {key} |-> h[k]]

\* cloneHeader: a new map with a copy of every value list.
cloneHeader(hdrs, a) ==
    IF a = 0 THEN Append(hdrs, << >>)
    ELSE Append(hdrs, [k \in DOMAIN hdrs[a] |-> hdrs[a][k]])

\* cloneRequest: [urls, hdrs: the objects afterwards, req: the outbound
\* request, target, err].
cloneRequest(urls, hdrs, r) ==
    IF r.url = 0
    THEN [urls |-> urls, hdrs |-> hdrs, req |-> NoRequest, target |-> "",
          err |-> "missing url"]
    ELSE LET c == RequestClone(urls, hdrs, r)
             \* lines 348-351: cloneURL and the scheme
             u1 == IF c.urls[c.req.url].scheme = ""
                   THEN Append(c.urls, [c.urls[c.req.url] EXCEPT !.scheme = "http"])
                   ELSE c.urls
             a1 == IF c.urls[c.req.url].scheme = "" THEN Len(c.urls) + 1
                   ELSE c.req.url
             \* lines 352-354
             u2 == IF u1[a1].host = "" THEN [u1 EXCEPT ![a1].host = r.host]
                   ELSE u1
             \* lines 355-359
             h1 == cloneHeader(c.hdrs, r.header)
             b1 == Len(c.hdrs) + 1
             h2 == [h1 EXCEPT ![b1] =
                       HeaderDel(HeaderDel(HeaderDel(@, "Proxy-Connection"),
                                           "Proxy-Authenticate"),
                                 "Proxy-Authorization")]
         IN  [urls |-> u2, hdrs |-> h2,
              req |-> [c.req EXCEPT !.url = a1, !.header = b1, !.requestURI = ""],
              target |-> u2[a1].host, err |-> ""]

\* handleHTTP line 126, processMitmRequest line 236.
CloneRequestCall ==
    /\ cqPc = "start"
    /\ LET res == cloneRequest(cqUrls, cqHeaders, cqIn)
       IN  /\ cqUrls' = res.urls
           /\ cqHeaders' = res.hdrs
           /\ cqOut' = [req |-> res.req, target |-> res.target, err |-> res.err]
    /\ cqPc' = "done"
    /\ UNCHANGED cqIn
    /\ CloneFrame

NextClone == CloneRequestCall

InitSpecClone ==
    InitClone /\ AllowedIdle /\ TeeIdle /\ LeafIdle /\ HandlersIdle
    /\ TunnelIdle /\ ExcerptIdle /\ ShutdownIdle /\ HeaderBlockIdle
    /\ SanitiseIdle /\ RegistryIdle /\ BufferIdle /\ StreamIdle
    /\ SessionIdle

SpecClone == InitSpecClone /\ [][NextClone]_vars

\* cloneRequest returns an outbound request in this step.
Cloned == cqPc = "start" /\ cqPc' = "done" /\ cqOut'.err = ""

\* C36: the outbound request of cloneRequest has exactly the inbound
\* headers without Proxy-Connection, Proxy-Authenticate and
\* Proxy-Authorization, the inbound scheme or http when that was empty, the
\* inbound URL host or the Host field when that was empty, and an empty
\* RequestURI; the inbound request's header map, URL and RequestURI are as
\* they were before the call.
C36_CloneRequestEffect ==
    [][Cloned =>
          LET in == cqIn
              inURL == cqUrls[in.url]
              inHeader == cqHeaders[in.header]
              out == cqOut'.req
              outURL == cqUrls'[out.url]
              outHeader == cqHeaders'[out.header]
          IN  /\ DOMAIN outHeader = DOMAIN inHeader \ ProxyHeaderNames
              /\ \A k \in DOMAIN outHeader : outHeader[k] = inHeader[k]
              /\ outURL.scheme = IF inURL.scheme = "" THEN "http" ELSE inURL.scheme
              /\ outURL.host = IF inURL.host = "" THEN in.host ELSE inURL.host
              /\ out.requestURI = ""
              /\ cqOut'.target = outURL.host
              /\ cqIn' = in
              /\ cqUrls'[in.url] = inURL
              /\ cqHeaders'[in.header] = inHeader]_vars

\* A request with all three proxy headers and another one, no scheme, no
\* URL host and a wire-form RequestURI was cloned.
C36_Witness ==
    /\ cqPc = "done" /\ cqOut.err = ""
    /\ DOMAIN cqHeaders[cqIn.header] = CloneHeaderNames
    /\ DOMAIN cqHeaders[cqOut.req.header] = {"Accept"}
    /\ cqUrls[cqIn.url] = [scheme |-> "", host |-> ""]
    /\ cqUrls[cqOut.req.url] = [scheme |-> "http", host |-> "h.test"]
    /\ cqIn.requestURI = "/p" /\ cqOut.req.requestURI = ""

\* C37: no tee writes into a pooled buffer after the handler that owned it
\* has released it: in every step, a buffer that receives bytes is out of
\* the pool and held by a handler, and the bytes are of the request that
\* handler serves; this also when the transport still reads the
\* tee-wrapped request body after the handler returned and another handler
\* has acquired the buffer.
C37_NoTeeWriteAfterRelease ==
    [][\A id \in 1..Len(exBufs) :
          Len(exBufs'[id].buf) > Len(exBufs[id].buf) =>
              /\ id \notin exPool
              /\ \E p \in Handlers :
                    /\ id \in Held(p)
                    /\ OwnBytes(exBufs'[id].buf, exLoc[p].req)]_vars

(***************************************************************************)
(* The decrypted stream of a MITM session                                  *)
(*                                                                         *)
(* handleMitmTLS parses requests with http.ReadRequest from one            *)
(* bufio.Reader over the TLS connection.  The body of a parsed request     *)
(* reads from the same reader: bytes of it that nobody read are still in   *)
(* the stream when the next request is parsed.  The stream is a sequence   *)
(* of tokens: the head of a request (request line and headers, with the    *)
(* declared body length and whether a header makes the request filters     *)
(* reject it) followed by its body bytes.                                  *)
(***************************************************************************)

\* Requests the client sends in one session at most.
MaxSessionRequests == 2

\* Longest request body.
MaxRequestBody == 2

HeadToken(n, block) == [kind |-> "head", n |-> n, block |-> block]

BodyToken == [kind |-> "body", n |-> 0, block |-> FALSE]

\* The bytes of one request on the wire.
Wire(h) == <<h>> \o [i \in 1..h.n |-> BodyToken]

RECURSIVE WireAll(_)
WireAll(hs) == IF hs = <<>> THEN <<>> ELSE Wire(Head(hs)) \o WireAll(Tail(hs))

RequestHeads == {HeadToken(n, b) : n \in 0..MaxRequestBody, b \in BOOLEAN}

InitSession ==
    /\ msStream \in {WireAll(hs) : hs \in SeqsUpTo(RequestHeads, MaxSessionRequests)}
    /\ msPos = 1
    /\ msCur = NoHead
    /\ msPc = "read"
    /\ msParsedAt = {}
    /\ msStatuses = <<>>

\* Close of the body http.ReadRequest attached to a keep-alive request: it
\* reads the rest of the body from the stream and discards it.
bodyClose(pos, remaining) == pos + remaining

\* The session returns to handleConnect.
SessionEnds(how) ==
    /\ msPc' = how
    /\ msCur' = NoHead

\* handleMitmTLS 197-203: http.ReadRequest parses from the next unread
\* byte.  Nothing left is io.EOF; bytes that are no request head are a
\* malformed request.
SessionReadRequest ==
    /\ msPc = "read"
    /\ msParsedAt' = msParsedAt \cup {msPos}
    /\ IF msPos > Len(msStream)
       THEN SessionEnds("ended_clean") /\ UNCHANGED msPos
       ELSE IF msStream[msPos].kind = "head"
       THEN /\ msCur' = msStream[msPos]
            /\ msPos' = msPos + 1
            /\ msPc' = "filters"
       ELSE SessionEnds("ended_error") /\ UNCHANGED msPos
    /\ UNCHANGED <<msStream, msStatuses>>
    /\ SessionFrame

\* writeMitmStatus 310-342: the status response is written; the request
\* body is not touched.
SessionWriteStatus(status) ==
    \E written \in BOOLEAN :
        IF written
        THEN /\ msStatuses' = Append(msStatuses, status)
             /\ msPc' = "read"
             /\ msCur' = NoHead
        ELSE SessionEnds("ended_error") /\ UNCHANGED msStatuses

\* processMitmRequest 226-248: the request filters; a rejection is answered
\* 403 before anyone has read the body.
SessionFilters ==
    /\ msPc = "filters"
    /\ IF msCur.block
       THEN SessionWriteStatus(403)
       ELSE msPc' = "roundtrip" /\ UNCHANGED <<msCur, msStatuses>>
    /\ UNCHANGED <<msStream, msPos, msParsedAt>>
    /\ SessionFrame

\* processMitmRequest 250-258: the transport reads some of the body.  When
\* the round trip fails (or the response is rejected) the answer is 502;
\* the transport closes the request body, before RoundTrip returns or
\* later in its own goroutine.
SessionRoundTripFails ==
    /\ msPc = "roundtrip"
    /\ \E read \in 0..msCur.n, closed \in BOOLEAN :
         msPos' = IF closed THEN bodyClose(msPos + read, msCur.n - read)
                  ELSE msPos + read
    /\ SessionWriteStatus(502)
    /\ UNCHANGED <<msStream, msParsedAt>>
    /\ SessionFrame

\* processMitmRequest 250-307: the round trip succeeds, the response is
\* written to the client and inbound.Body is closed (304-306); a failed
\* write returns before that.
SessionRoundTripOK ==
    /\ msPc = "roundtrip"
    /\ \E read \in 0..msCur.n, written \in BOOLEAN :
         IF written
         THEN /\ msPos' = bodyClose(msPos + read, msCur.n - read)
              /\ msStatuses' = Append(msStatuses, 200)
              /\ msPc' = "read"
              /\ msCur' = NoHead
         ELSE /\ msPos' = msPos + read
              /\ SessionEnds("ended_error")
              /\ UNCHANGED msStatuses
    /\ UNCHANGED <<msStream, msParsedAt>>
    /\ SessionFrame

NextSession ==
    \/ SessionReadRequest
    \/ SessionFilters
    \/ SessionRoundTripFails
    \/ SessionRoundTripOK

InitSpecSession ==
    InitSession /\ AllowedIdle /\ TeeIdle /\ LeafIdle /\ HandlersIdle
    /\ TunnelIdle /\ ExcerptIdle /\ ShutdownIdle /\ HeaderBlockIdle
    /\ SanitiseIdle /\ RegistryIdle /\ BufferIdle /\ StreamIdle /\ CloneIdle

SpecSession == InitSpecSession /\ [][NextSession]_vars

\* Position p of the stream is where a request starts, or the end.
RequestBoundary(p) ==
    p = Len(msStream) + 1 \/ (p \in DOMAIN msStream /\ msStream[p].kind = "head")

\* C38: in a MITM session, after a request with a body was answered without
\* its body being consumed (403 on request-filter rejection, 502 on a
\* failed round trip), the next request is parsed from the first byte after
\* that body: every position at which http.ReadRequest started to parse is
\* a request boundary, never a byte of a body.
C38_NextRequestAfterBody ==
    \A p \in msParsedAt : RequestBoundary(p)

\* Whenever the body of the request before was closed, the parser is at a
\* request boundary: the statement holds on the path that closes the body.
ParsesAtBoundaryAfterOK ==
    msPc = "read" /\ msStatuses # <<>> /\ msStatuses[Len(msStatuses)] = 200 =>
        RequestBoundary(msPos)

====
